---------------------------- MODULE Spec2Model ----------------------------
(***************************************************************************)
(* Groth16 backend (groth16_backend/src): circuits v1 (MVPCircuit) and v2  *)
(* (TDFOLv1DerivationCircuitV2), the witness builder, setup, prover and    *)
(* verifier.                                                               *)
(*                                                                         *)
(* Scaling.  A 32-byte word is HexLen hex digits here (64 in the code), so *)
(* a word is a number in 0..WordCount-1, kept as its big-endian value.     *)
(* The BN254 moduli q (base field) and r (scalar field) satisfy            *)
(* r < q, 5q < 2^256 < 6r; the model takes the largest primes with the     *)
(* same relation to WordCount.  MAX_AXIOMS and MAX_STEPS are 16 in the     *)
(* code and MaxAxioms, MaxSteps here.  SHA-256 is a fixed table over the   *)
(* strings the model uses.  The external Groth16 library is modelled as an *)
(* ideal proof system: a proof carries the key it was made with, the       *)
(* public inputs of the circuit it was made for and the prover's           *)
(* randomness, and the pairing check accepts exactly the proofs made with  *)
(* the matching key for the given public inputs.                           *)
(***************************************************************************)
EXTENDS Integers, Sequences, FiniteSets, TLC

\* ------------------------------------------------------------------ bounds
HexLen == 2
MaxAxioms == 3
MaxSteps == 2
MaxSetupRuns == 2
MaxCalls == 2

\* ------------------------------------------------------- program constants
TDFOL_V1_V2_ALPHA == 7
TDFOL_V1_V2_BETA == 13
MaxVersion == 255
SchemaVersion == 1
NumPublicInputs == 4
NumProofWords == 8

\* ----------------------------------------------------------------- results
Ok(v) == [ok |-> TRUE, val |-> v]
Err(kind, msg) == [ok |-> FALSE, kind |-> kind, msg |-> msg]

\* main.rs error_code: the category of a failure is the concrete type the
\* anyhow error can be downcast to.
error_code(err) ==
    IF err.kind = "serde_json::Error" THEN "INVALID_JSON"
    ELSE IF err.kind = "hex::FromHexError" THEN "INVALID_HEX"
    ELSE IF err.kind = "std::io::Error" THEN "IO_ERROR"
    ELSE "INTERNAL"

\* ------------------------------------------------------------------ fields
RECURSIVE Pow(_, _)
Pow(b, e) == IF e = 0 THEN 1 ELSE b * Pow(b, e - 1)

WordCount == Pow(16, HexLen)
Words == 0..(WordCount - 1)

IsPrime(n) == n > 1 /\ \A d \in 2..(n - 1) : n % d # 0
LargestPrimeBelow(n) ==
    CHOOSE p \in 2..(n - 1) : IsPrime(p) /\ \A q \in (p + 1)..(n - 1) : ~IsPrime(q)

\* Fq: base field of BN254 (proof coordinates); Fr: scalar field (public inputs).
FqModulus == LargestPrimeBelow((WordCount \div 5) + 1)
FrModulus == LargestPrimeBelow(FqModulus)

FrFromBeBytesModOrder(w) == w % FrModulus
FqFromBeBytesModOrder(w) == w % FqModulus
FrAdd(a, b) == (a + b) % FrModulus
FrMul(a, b) == (a * b) % FrModulus
FrFromU64(n) == n % FrModulus
\* Field::inverse(): None for zero; the callers take unwrap_or(ZERO).
FrInverseOrZero(x) ==
    IF \E y \in 0..(FrModulus - 1) : FrMul(x, y) = 1
    THEN CHOOSE y \in 0..(FrModulus - 1) : FrMul(x, y) = 1
    ELSE 0

\* --------------------------------------------------------------------- hex
\* A string is a sequence of one-character strings.
HexLower == <<"0", "1", "2", "3", "4", "5", "6", "7", "8", "9", "a", "b", "c", "d", "e", "f">>
HexUpper == <<"0", "1", "2", "3", "4", "5", "6", "7", "8", "9", "A", "B", "C", "D", "E", "F">>
IsHexChar(c) == \E i \in 1..16 : HexLower[i] = c \/ HexUpper[i] = c
HexVal(c) == (CHOOSE i \in 1..16 : HexLower[i] = c \/ HexUpper[i] = c) - 1

\* hex::encode: lower case, two digits per byte, big endian.
HexEncode(w) == [i \in 1..HexLen |-> HexLower[((w \div Pow(16, HexLen - i)) % 16) + 1]]
HexEncodeUpper(w) == [i \in 1..HexLen |-> HexUpper[((w \div Pow(16, HexLen - i)) % 16) + 1]]

RECURSIVE HexDigitsValue(_)
HexDigitsValue(s) ==
    IF s = <<>> THEN 0
    ELSE 16 * HexDigitsValue(SubSeq(s, 1, Len(s) - 1)) + HexVal(s[Len(s)])

\* hex::decode: FromHexError on a character that is no hex digit.
HexDecode(s) ==
    IF \E i \in 1..Len(s) : ~IsHexChar(s[i])
    THEN Err("hex::FromHexError", "invalid character")
    ELSE Ok(HexDigitsValue(s))

HasPrefix(s, p) == Len(s) >= Len(p) /\ SubSeq(s, 1, Len(p)) = p
StripPrefix(s, p) == SubSeq(s, Len(p) + 1, Len(s))

\* Mutant of strip_0x_prefix: only the lower-case prefix is stripped.
strip_0x_prefix_LowerOnly(s) ==
    IF HasPrefix(s, <<"0", "x">>) THEN StripPrefix(s, <<"0", "x">>) ELSE s

strip_0x_prefix(s) ==
    IF HasPrefix(s, <<"0", "x">>) THEN StripPrefix(s, <<"0", "x">>)
    ELSE IF HasPrefix(s, <<"0", "X">>) THEN StripPrefix(s, <<"0", "X">>)
    ELSE s

RECURSIVE TrimStart(_)
TrimStart(s) == IF s # <<>> /\ s[1] = " " THEN TrimStart(Tail(s)) ELSE s
RECURSIVE TrimEnd(_)
TrimEnd(s) == IF s # <<>> /\ s[Len(s)] = " " THEN TrimEnd(SubSeq(s, 1, Len(s) - 1)) ELSE s
Trim(s) == TrimEnd(TrimStart(s))

\* prover.rs decode_32byte_hex: no trimming.
decode_32byte_hex(hex_str) ==
    LET canonical == strip_0x_prefix(hex_str) IN
    IF Len(canonical) # HexLen
    THEN Err("anyhow", "must be 64 hex chars (32 bytes)")
    ELSE HexDecode(canonical)

\* verifier.rs parse_0x32_to_bytes / parse_32byte_hex_to_bytes: trims first.
parse_0x32_to_bytes(s) ==
    LET t == strip_0x_prefix(Trim(s)) IN
    IF Len(t) # HexLen
    THEN Err("anyhow", "expected 32-byte hex string")
    ELSE HexDecode(t)

\* field_to_0x32 / fr_to_32bytes_be: big endian, left padded, 0x-prefixed lower case.
fr_to_32bytes_be(x) == x % WordCount
\* Mutant of field_to_0x32: upper-case hex digits.
field_to_0x32_UpperCase(x) == <<"0", "x">> \o HexEncodeUpper(x % WordCount)
field_to_0x32(x) == <<"0", "x">> \o HexEncode(x % WordCount)

\* ----------------------------------------------------------------- SHA-256
\* A fixed table over the strings of the model; some digests exceed r.
Sha256(s) ==
    CASE s = "P" -> 3
      [] s = "Q" -> FrModulus + 5
      [] s = "A" -> 7
      [] s = "B" -> (2 * FrModulus) + 9
      [] s = "C" -> 20
      [] s = "TDFOL_v1" -> (3 * FrModulus) + 11
      [] s = "CEC_v1" -> 17
      [] OTHER -> 1

sha256_fr(atom) == FrFromBeBytesModOrder(Sha256(atom))


\* ------------------------------------------------------ axioms commitment
\* prover.rs / setup.rs commit_axioms_v2: the loop over zip(ants, cons).
RECURSIVE CommitLoop(_, _, _, _, _)
CommitLoop(ax_ants, ax_cons, i, acc, beta_pow) ==
    IF i > Len(ax_ants) \/ i > Len(ax_cons) THEN acc
    ELSE LET term == FrAdd(ax_cons[i], FrMul(ax_ants[i], FrFromU64(TDFOL_V1_V2_ALPHA))) IN
         CommitLoop(ax_ants, ax_cons, i + 1,
                    FrAdd(acc, FrMul(term, beta_pow)),
                    FrMul(beta_pow, FrFromU64(TDFOL_V1_V2_BETA)))

commit_axioms_v2(ax_ants, ax_cons) == CommitLoop(ax_ants, ax_cons, 1, 0, 1)

\* ------------------------------------------------------------- circuit v2
PadTo(s, n) == s \o [i \in 1..(n - Len(s)) |-> 0]

\* Mutant of InCircuitCommitLoop: beta_pow is not advanced from slot to slot.
RECURSIVE InCircuitCommitLoop_FixedBeta(_, _, _, _, _)
InCircuitCommitLoop_FixedBeta(ants, cons, i, commitment, beta_pow) ==
    IF i > MaxAxioms THEN commitment
    ELSE LET term == FrAdd(cons[i], FrMul(ants[i], FrFromU64(TDFOL_V1_V2_ALPHA)))
             weighted == FrMul(term, beta_pow) IN
         InCircuitCommitLoop_FixedBeta(ants, cons, i + 1,
                                       FrAdd(commitment, weighted), beta_pow)

\* circuit.rs 177-194: the accumulator over the MAX_AXIOMS padded slots.
RECURSIVE InCircuitCommitLoop(_, _, _, _, _)
InCircuitCommitLoop(ants, cons, i, commitment, beta_pow) ==
    IF i > MaxAxioms THEN commitment
    ELSE LET term == FrAdd(cons[i], FrMul(ants[i], FrFromU64(TDFOL_V1_V2_ALPHA)))
             weighted == FrMul(term, beta_pow) IN
         InCircuitCommitLoop(ants, cons, i + 1,
                             FrAdd(commitment, weighted),
                             FrMul(beta_pow, FrFromU64(TDFOL_V1_V2_BETA)))

InCircuitCommitment(ants, cons) == InCircuitCommitLoop(ants, cons, 1, 0, 1)

\* cons == 0 => ant == 0, for every slot.
AxiomsWellFormed(ants, cons) ==
    \A i \in 1..MaxAxioms : ~(cons[i] = 0 /\ ~(ants[i] = 0))

TraceNonEmpty(trace) == \E i \in 1..MaxSteps : trace[i] # 0

TraceZeroPadded(trace) ==
    \A i \in 1..(MaxSteps - 1) : ~(trace[i] = 0 /\ ~(trace[i + 1] = 0))

\* Mutant of TraceUnique: the inner loop starts at i + 2, so neighbours are
\* never compared.
TraceUnique_SkipsNeighbour(trace) ==
    \A i \in 1..MaxSteps : \A j \in (i + 2)..MaxSteps :
        ~(trace[i] # 0 /\ trace[j] # 0 /\ trace[i] = trace[j])

TraceUnique(trace) ==
    \A i \in 1..MaxSteps : \A j \in (i + 1)..MaxSteps :
        ~((trace[i] # 0 /\ trace[j] # 0) /\ trace[i] = trace[j])

fact_membership(ants, cons, x) ==
    \E i \in 1..MaxAxioms : (ants[i] = 0 /\ cons[i] # 0) /\ cons[i] = x

\* Mutant of prev_membership: every step counts, not only the earlier ones.
prev_membership_AnyStep(trace, x, k) ==
    \E j \in 1..MaxSteps : trace[j] # 0 /\ trace[j] = x

\* k is the zero-based index of the step: the steps before it are 1..k here.
prev_membership(trace, x, k) ==
    IF k = 0 THEN FALSE
    ELSE \E j \in 1..k : trace[j] # 0 /\ trace[j] = x

known_membership(ants, cons, trace, x, k) ==
    fact_membership(ants, cons, x) \/ prev_membership(trace, x, k)

StepJustified(ants, cons, trace, k) ==
    LET step == trace[k + 1]
        step_known == known_membership(ants, cons, trace, step, k)
        need_just == step # 0 /\ ~step_known
        exists_just ==
            \E i \in 1..MaxAxioms :
                ((ants[i] # 0 /\ cons[i] # 0) /\ cons[i] = step)
                /\ known_membership(ants, cons, trace, ants[i], k)
    IN ~(need_just /\ ~exists_just)

TheoremInKnownSet(ants, cons, trace, theorem_hash_input) ==
    fact_membership(ants, cons, theorem_hash_input)
    \/ \E k \in 1..MaxSteps : trace[k] # 0 /\ trace[k] = theorem_hash_input

\* TDFOLv1DerivationCircuitV2::generate_constraints followed by cs.is_satisfied():
\* Err on the early returns, else the public inputs and whether every
\* constraint holds of the assignment.
V2GenerateConstraints(circuit) ==
    IF Len(circuit.axiom_antecedents) # Len(circuit.axiom_consequents)
       \/ Len(circuit.axiom_antecedents) > MaxAxioms
       \/ Len(circuit.trace_steps) > MaxSteps
       \/ circuit.ruleset_id = ""
       \/ circuit.circuit_version # 2
    THEN Err("SynthesisError", "AssignmentMissing")
    ELSE
      LET ants == PadTo(circuit.axiom_antecedents, MaxAxioms)
          cons == PadTo(circuit.axiom_consequents, MaxAxioms)
          trace == PadTo(circuit.trace_steps, MaxSteps)
          theorem_hash_input == FrFromBeBytesModOrder(circuit.theorem_hash)
          axioms_commitment_input == FrFromBeBytesModOrder(circuit.axioms_commitment)
          circuit_version_input == FrFromU64(circuit.circuit_version)
          ruleset_id_input == sha256_fr(circuit.ruleset_id)
      IN Ok([inputs |-> <<theorem_hash_input, axioms_commitment_input,
                          circuit_version_input, ruleset_id_input>>,
             ants |-> ants, cons |-> cons, trace |-> trace,
             commitment |-> InCircuitCommitment(ants, cons),
             satisfied |->
                /\ circuit_version_input = FrFromU64(2)
                /\ ruleset_id_input = sha256_fr("TDFOL_v1")
                /\ AxiomsWellFormed(ants, cons)
                /\ axioms_commitment_input = InCircuitCommitment(ants, cons)
                /\ TraceNonEmpty(trace)
                /\ TraceZeroPadded(trace)
                /\ TraceUnique(trace)
                /\ \A k \in 0..(MaxSteps - 1) : StepJustified(ants, cons, trace, k)
                /\ TheoremInKnownSet(ants, cons, trace, theorem_hash_input)])

\* ------------------------------------------------------- circuit v1 (MVP)
\* MVPCircuit::generate_constraints followed by cs.is_satisfied().  The byte
\* vectors are always 32 bytes long here (a word), so the length checks pass.
\* Mutant of MVPGenerateConstraints: the version is range-checked as a byte
\* (circuit_version as u8), so the check never fires.
MVPGenerateConstraints_VersionAsByte(circuit) ==
    IF circuit.axioms_commitment = 0
       \/ circuit.theorem_hash = 0
       \/ circuit.ruleset_id = ""
       \/ (circuit.circuit_version % (MaxVersion + 1)) > MaxVersion
    THEN Err("SynthesisError", "AssignmentMissing")
    ELSE
      LET theorem_hash_fr == FrFromBeBytesModOrder(circuit.theorem_hash)
          axioms_commitment_fr == FrFromBeBytesModOrder(circuit.axioms_commitment)
          ruleset_id_fr == sha256_fr(circuit.ruleset_id) IN
      Ok([inputs |-> <<theorem_hash_fr, axioms_commitment_fr,
                       FrFromU64(circuit.circuit_version), ruleset_id_fr>>,
          satisfied |->
             /\ FrMul(theorem_hash_fr, FrInverseOrZero(theorem_hash_fr)) = 1
             /\ FrMul(axioms_commitment_fr, FrInverseOrZero(axioms_commitment_fr)) = 1
             /\ FrMul(ruleset_id_fr, FrInverseOrZero(ruleset_id_fr)) = 1])

\* Mutant of MVPGenerateConstraints: only the all-zero words are refused, the
\* inverse constraints are left out.
MVPGenerateConstraints_NoInverse(circuit) ==
    IF circuit.axioms_commitment = 0
       \/ circuit.theorem_hash = 0
       \/ circuit.ruleset_id = ""
       \/ circuit.circuit_version > MaxVersion
    THEN Err("SynthesisError", "AssignmentMissing")
    ELSE Ok([inputs |-> <<FrFromBeBytesModOrder(circuit.theorem_hash),
                          FrFromBeBytesModOrder(circuit.axioms_commitment),
                          FrFromU64(circuit.circuit_version),
                          sha256_fr(circuit.ruleset_id)>>,
             satisfied |-> TRUE])

MVPGenerateConstraints(circuit) ==
    IF circuit.axioms_commitment = 0
       \/ circuit.theorem_hash = 0
       \/ circuit.ruleset_id = ""
       \/ circuit.circuit_version > MaxVersion
    THEN Err("SynthesisError", "AssignmentMissing")
    ELSE
      LET theorem_hash_fr == FrFromBeBytesModOrder(circuit.theorem_hash)
          axioms_commitment_fr == FrFromBeBytesModOrder(circuit.axioms_commitment)
          ruleset_id_fr == sha256_fr(circuit.ruleset_id)
          version_fr == FrFromU64(circuit.circuit_version)
          inv_theorem == FrInverseOrZero(theorem_hash_fr)
          inv_axioms == FrInverseOrZero(axioms_commitment_fr)
          inv_ruleset == FrInverseOrZero(ruleset_id_fr)
          version_var == version_fr
      IN Ok([inputs |-> <<theorem_hash_fr, axioms_commitment_fr, version_fr, ruleset_id_fr>>,
             satisfied |->
                /\ FrMul(theorem_hash_fr, inv_theorem) = 1
                /\ FrMul(axioms_commitment_fr, inv_axioms) = 1
                /\ FrMul(ruleset_id_fr, inv_ruleset) = 1
                /\ version_fr = version_var
                /\ version_var = FrMul(version_var, 1)])

\* ------------------------------------------------------------ JSON values
JsonString(chars) == [t |-> "string", s |-> chars]
JsonArray(items) == [t |-> "array", items |-> items]
JsonNumber(n) == [t |-> "number", n |-> n]
JsonStrings(seq) == JsonArray([i \in 1..Len(seq) |-> JsonString(seq[i])])

\* BTreeMap::insert on a map kept as a function from keys to values.
MapInsert(m, k, v) == [x \in (DOMAIN m) \cup {k} |-> IF x = k THEN v ELSE m[x]]
MapRemove(m, k) == [x \in (DOMAIN m) \ {k} |-> m[x]]
EmptyMap == <<>>

\* u32::to_string: the decimal digits.
RECURSIVE ToDecimalString(_)
ToDecimalString(n) ==
    IF n < 10 THEN <<HexLower[n + 1]>>
    ELSE Append(ToDecimalString(n \div 10), HexLower[(n % 10) + 1])

IsDecimalChar(c) == \E i \in 1..10 : HexLower[i] = c
RECURSIVE DecimalValue(_)
DecimalValue(s) ==
    IF s = <<>> THEN 0
    ELSE 10 * DecimalValue(SubSeq(s, 1, Len(s) - 1)) + HexVal(s[Len(s)])
\* str::parse::<u32> after trim.
ParseU32(s) ==
    LET t == Trim(s) IN
    IF t = <<>> \/ \E i \in 1..Len(t) : ~IsDecimalChar(t[i])
    THEN Err("ParseIntError", "invalid digit")
    ELSE Ok(DecimalValue(t))

\* ------------------------------------------------------ ideal Groth16
\* Keys of one circuit-specific setup: the circuit they were made for and the
\* randomness (toxic waste) of the setup.  StdRng::seed_from_u64 is a function
\* of the seed; OsRng yields any stream (one a seed gives, too).
NoSeed == [some |-> FALSE]
SomeSeed(n) == [some |-> TRUE, val |-> n]
Seeds == {1, 2}
OsRngStreams == {1, 2}
StdRngStream(seed) == seed

Groth16Setup(circuit_id, rng) == [circuit |-> circuit_id, toxic |-> rng]

\* Groth16::prove: the proof points A, B, C as affine coordinates in Fq.
Groth16Prove(pk, inputs, rng) ==
    [a |-> <<pk.circuit, pk.toxic>>,
     b |-> <<<<inputs[1], inputs[2]>>, <<inputs[3], inputs[4]>>>>,
     c |-> <<rng, 0>>]

\* Mutant of Groth16VerifyProof: the last public input is not bound by the check.
Groth16VerifyProof_ThreeInputs(vk, proof, inputs) ==
    Ok(/\ proof.a = <<vk.circuit, vk.toxic>>
       /\ proof.b[1] = <<inputs[1], inputs[2]>>
       /\ proof.b[2][1] = inputs[3])

\* Groth16::verify_proof with the prepared key: the pairing check.
Groth16VerifyProof(vk, proof, inputs) ==
    IF Len(inputs) + 1 # NumPublicInputs + 1
    THEN Err("SynthesisError", "MalformedVerifyingKey")
    ELSE Ok(/\ proof.a = <<vk.circuit, vk.toxic>>
            /\ proof.b = <<<<inputs[1], inputs[2]>>, <<inputs[3], inputs[4]>>>>)

\* ---------------------------------------------------------- artifacts
\* artifacts[v] is the directory <root>/v{v}: whether it exists and the keys
\* in proving_key.bin / verifying_key.bin (written together by setup).
NoKeys == [present |-> FALSE]
KeysOf(k) == [present |-> TRUE, key |-> k]
ArtifactDirs == {1, 2, 42}
NoDir == [exists |-> FALSE, keys |-> NoKeys]

\* prover.rs load_proving_key: fs::read mapped into an anyhow message.
load_proving_key(artifacts, version) ==
    IF version \notin DOMAIN artifacts \/ ~artifacts[version].keys.present
    THEN Err("anyhow", "failed to read proving key")
    ELSE Ok(artifacts[version].keys.key)

\* Mutant of load_verifying_key: a missing file yields a default key.
load_verifying_key_Default(artifacts, version) ==
    IF version \notin DOMAIN artifacts \/ ~artifacts[version].keys.present
    THEN Ok(Groth16Setup(0, 0))
    ELSE Ok(artifacts[version].keys.key)

\* verifier.rs load_verifying_key.
load_verifying_key(artifacts, version) ==
    IF version \notin DOMAIN artifacts \/ ~artifacts[version].keys.present
    THEN Err("anyhow", "failed to read verifying key")
    ELSE Ok(artifacts[version].keys.key)

\* Mutant of FsAfterKeyRead: reading a key file consumes it.
FsAfterKeyRead_Consumes(artifacts, version) ==
    IF version \in DOMAIN artifacts
    THEN [artifacts EXCEPT ![version].keys = NoKeys]
    ELSE artifacts

\* The artifacts root after load_proving_key / load_verifying_key: fs::read
\* opens the file read-only, nothing is created, written or removed.
FsAfterKeyRead(artifacts, version) == artifacts

\* ------------------------------------------------------ witness builder
\* The lexical check [A-Za-z][A-Za-z0-9_]* on the atoms of the model.
is_tdfol_atom(s) == s \in {"P", "Q", "A", "B", "C"}

\* str::trim on the theorem, step, ruleset and environment strings of the
\* model: " " is blank, " Q " is the atom Q and " 1 " the value 1 with white
\* space around them.
StrTrim(s) ==
    IF s = " " THEN ""
    ELSE IF s = " Q " THEN "Q"
    ELSE IF s = " 1 " THEN "1"
    ELSE s

\* An axiom text is its sequence of tokens (atoms and "->"), trimmed.
ArrowPositions(text) == { i \in 1..Len(text) : text[i] = "->" }
parse_tdfol_v1_axiom(text) ==
    IF text = <<>> THEN Err("anyhow", "axiom cannot be empty")
    ELSE IF Cardinality(ArrowPositions(text)) = 0
         THEN IF Len(text) = 1 /\ is_tdfol_atom(text[1])
              THEN Ok([ant |-> [some |-> FALSE], cons |-> text[1]])
              ELSE Err("anyhow", "invalid atom in fact axiom")
    ELSE IF Cardinality(ArrowPositions(text)) = 1
         THEN LET at == CHOOSE i \in ArrowPositions(text) : TRUE
                  left == SubSeq(text, 1, at - 1)
                  right == SubSeq(text, at + 1, Len(text)) IN
              IF ~(Len(left) = 1 /\ is_tdfol_atom(left[1]))
              THEN Err("anyhow", "invalid atom in implication antecedent")
              ELSE IF ~(Len(right) = 1 /\ is_tdfol_atom(right[1]))
              THEN Err("anyhow", "invalid atom in implication consequent")
              ELSE Ok([ant |-> [some |-> TRUE, val |-> left[1]], cons |-> right[1]])
    ELSE Err("anyhow", "axiom may contain at most one '->'")

FirstError(results) ==
    results[CHOOSE i \in 1..Len(results) :
                ~results[i].ok /\ \A j \in 1..(i - 1) : results[j].ok]

\* The builder with two of its checks switchable, for the mutants below.
BuildV2Variant(witness, ruleset_checked, full_length_allowed) ==
    LET parsed == [i \in 1..Len(witness.private_axioms) |->
                        parse_tdfol_v1_axiom(witness.private_axioms[i])]
        ax_ants == [i \in 1..Len(parsed) |->
                        IF parsed[i].val.ant.some THEN sha256_fr(parsed[i].val.ant.val) ELSE 0]
        ax_cons == [i \in 1..Len(parsed) |-> sha256_fr(parsed[i].val.cons)]
        trace_fr == [i \in 1..Len(witness.intermediate_steps) |->
                        sha256_fr(StrTrim(witness.intermediate_steps[i]))]
        expected_commitment_hex ==
            HexEncode(fr_to_32bytes_be(commit_axioms_v2(ax_ants, ax_cons)))
        theorem_hash_expected == HexEncode(Sha256(StrTrim(witness.theorem)))
        axioms_commitment == decode_32byte_hex(witness.axioms_commitment_hex)
        theorem_hash == decode_32byte_hex(witness.theorem_hash_hex)
    IN
    IF ruleset_checked /\ witness.ruleset_id # "TDFOL_v1"
    THEN Err("anyhow", "circuit_version=2 currently supports ruleset_id=TDFOL_v1 only")
    ELSE IF ~is_tdfol_atom(StrTrim(witness.theorem))
    THEN Err("anyhow", "theorem must be an atom for TDFOL_v1")
    ELSE IF Len(witness.private_axioms) > MaxAxioms
            \/ (~full_length_allowed /\ Len(witness.private_axioms) = MaxAxioms)
    THEN Err("anyhow", "too many axioms for circuit_version=2")
    ELSE IF \E i \in 1..Len(parsed) : ~parsed[i].ok
    THEN FirstError(parsed)
    ELSE IF witness.intermediate_steps = <<>>
    THEN Err("anyhow", "intermediate_steps must be non-empty for circuit_version=2")
    ELSE IF Len(witness.intermediate_steps) > MaxSteps
            \/ (~full_length_allowed /\ Len(witness.intermediate_steps) = MaxSteps)
    THEN Err("anyhow", "too many intermediate_steps for circuit_version=2")
    ELSE IF \E i \in 1..Len(witness.intermediate_steps) :
                ~is_tdfol_atom(StrTrim(witness.intermediate_steps[i]))
    THEN Err("anyhow", "invalid atom in intermediate_steps")
    ELSE IF strip_0x_prefix(witness.axioms_commitment_hex) # expected_commitment_hex
    THEN Err("anyhow", "axioms_commitment_hex does not match TDFOL_v1 v2 commitment")
    ELSE IF strip_0x_prefix(witness.theorem_hash_hex) # theorem_hash_expected
    THEN Err("anyhow", "theorem_hash_hex does not match theorem")
    ELSE IF ~axioms_commitment.ok THEN axioms_commitment
    ELSE IF ~theorem_hash.ok THEN theorem_hash
    ELSE Ok([axiom_antecedents |-> ax_ants,
             axiom_consequents |-> ax_cons,
             trace_steps |-> trace_fr,
             axioms_commitment |-> axioms_commitment.val,
             theorem_hash |-> theorem_hash.val,
             circuit_version |-> 2,
             ruleset_id |-> witness.ruleset_id])

\* Mutant of build_tdfol_v1_v2_circuit: the length checks are >= instead of >.
build_tdfol_v1_v2_circuit_OffByOne(witness) == BuildV2Variant(witness, TRUE, FALSE)

\* Mutant of build_tdfol_v1_v2_circuit: the ruleset_id is not checked.
build_tdfol_v1_v2_circuit_AnyRuleset(witness) == BuildV2Variant(witness, FALSE, TRUE)

build_tdfol_v1_v2_circuit(witness) ==
    LET parsed == [i \in 1..Len(witness.private_axioms) |->
                        parse_tdfol_v1_axiom(witness.private_axioms[i])]
        ax_ants == [i \in 1..Len(parsed) |->
                        IF parsed[i].val.ant.some THEN sha256_fr(parsed[i].val.ant.val) ELSE 0]
        ax_cons == [i \in 1..Len(parsed) |-> sha256_fr(parsed[i].val.cons)]
        trace_fr == [i \in 1..Len(witness.intermediate_steps) |->
                        sha256_fr(StrTrim(witness.intermediate_steps[i]))]
        expected_commitment_hex ==
            HexEncode(fr_to_32bytes_be(commit_axioms_v2(ax_ants, ax_cons)))
        theorem_hash_expected == HexEncode(Sha256(StrTrim(witness.theorem)))
        axioms_commitment == decode_32byte_hex(witness.axioms_commitment_hex)
        theorem_hash == decode_32byte_hex(witness.theorem_hash_hex)
    IN
    IF witness.ruleset_id # "TDFOL_v1"
    THEN Err("anyhow", "circuit_version=2 currently supports ruleset_id=TDFOL_v1 only")
    ELSE IF ~is_tdfol_atom(StrTrim(witness.theorem))
    THEN Err("anyhow", "theorem must be an atom for TDFOL_v1")
    ELSE IF Len(witness.private_axioms) > MaxAxioms
    THEN Err("anyhow", "too many axioms for circuit_version=2")
    ELSE IF \E i \in 1..Len(parsed) : ~parsed[i].ok
    THEN FirstError(parsed)
    ELSE IF witness.intermediate_steps = <<>>
    THEN Err("anyhow", "intermediate_steps must be non-empty for circuit_version=2")
    ELSE IF Len(witness.intermediate_steps) > MaxSteps
    THEN Err("anyhow", "too many intermediate_steps for circuit_version=2")
    ELSE IF \E i \in 1..Len(witness.intermediate_steps) :
                ~is_tdfol_atom(StrTrim(witness.intermediate_steps[i]))
    THEN Err("anyhow", "invalid atom in intermediate_steps")
    ELSE IF strip_0x_prefix(witness.axioms_commitment_hex) # expected_commitment_hex
    THEN Err("anyhow", "axioms_commitment_hex does not match TDFOL_v1 v2 commitment")
    ELSE IF strip_0x_prefix(witness.theorem_hash_hex) # theorem_hash_expected
    THEN Err("anyhow", "theorem_hash_hex does not match theorem")
    ELSE IF ~axioms_commitment.ok THEN axioms_commitment
    ELSE IF ~theorem_hash.ok THEN theorem_hash
    ELSE Ok([axiom_antecedents |-> ax_ants,
             axiom_consequents |-> ax_cons,
             trace_steps |-> trace_fr,
             axioms_commitment |-> axioms_commitment.val,
             theorem_hash |-> theorem_hash.val,
             circuit_version |-> 2,
             ruleset_id |-> witness.ruleset_id])

\* ----------------------------------------------------------------- prover
\* GROTH16_BACKEND_DETERMINISTIC as the call finds it: unset, or set to a value.
EnvUnset == [set |-> FALSE]
EnvSet(v) == [set |-> TRUE, val |-> v]

\* Values of GROTH16_BACKEND_DETERMINISTIC: unset, listed ones, others, and a
\* listed one with white space around it.
ListedEnvValues == {"1", "true", "TRUE", "yes", "YES"}
EnvSamples ==
    {EnvUnset, EnvSet("1"), EnvSet("yes"), EnvSet("0"), EnvSet("True"), EnvSet(" 1 ")}

\* Mutant of is_deterministic_mode: the seed is not consulted.
is_deterministic_mode_EnvOnly(seed, env_deterministic) ==
    /\ env_deterministic.set
    /\ StrTrim(env_deterministic.val) \in {"1", "true", "TRUE", "yes", "YES"}

\* Mutant of is_deterministic_mode: the value of the variable is not trimmed.
is_deterministic_mode_Untrimmed(seed, env_deterministic) ==
    IF seed.some THEN TRUE
    ELSE IF env_deterministic.set
         THEN env_deterministic.val \in {"1", "true", "TRUE", "yes", "YES"}
         ELSE FALSE

is_deterministic_mode(seed, env_deterministic) ==
    IF seed.some THEN TRUE
    ELSE IF env_deterministic.set
         THEN StrTrim(env_deterministic.val) \in {"1", "true", "TRUE", "yes", "YES"}
         ELSE FALSE

\* Mutant of fr_inputs_from_witness: the commitment before the theorem hash.
fr_inputs_from_witness_CommitmentFirst(witness) ==
    LET theorem_hash_bytes == decode_32byte_hex(witness.theorem_hash_hex)
        axioms_commitment_bytes == decode_32byte_hex(witness.axioms_commitment_hex) IN
    IF ~theorem_hash_bytes.ok THEN theorem_hash_bytes
    ELSE IF ~axioms_commitment_bytes.ok THEN axioms_commitment_bytes
    ELSE Ok(<<FrFromBeBytesModOrder(axioms_commitment_bytes.val),
              FrFromBeBytesModOrder(theorem_hash_bytes.val),
              FrFromU64(witness.circuit_version),
              sha256_fr(witness.ruleset_id)>>)

fr_inputs_from_witness(witness) ==
    LET theorem_hash_bytes == decode_32byte_hex(witness.theorem_hash_hex)
        axioms_commitment_bytes == decode_32byte_hex(witness.axioms_commitment_hex) IN
    IF ~theorem_hash_bytes.ok THEN theorem_hash_bytes
    ELSE IF ~axioms_commitment_bytes.ok THEN axioms_commitment_bytes
    ELSE Ok(<<FrFromBeBytesModOrder(theorem_hash_bytes.val),
              FrFromBeBytesModOrder(axioms_commitment_bytes.val),
              FrFromU64(witness.circuit_version),
              sha256_fr(witness.ruleset_id)>>)

witness_to_public_inputs_wire(witness) ==
    <<witness.theorem_hash_hex,
      witness.axioms_commitment_hex,
      ToDecimalString(witness.circuit_version),
      witness.ruleset_id>>

\* Mutant of proof_to_evm_words: the G2 coordinates in the order (c1, c0).
proof_to_evm_words_SwappedG2(proof) ==
    <<field_to_0x32(proof.a[1]), field_to_0x32(proof.a[2]),
      field_to_0x32(proof.b[1][2]), field_to_0x32(proof.b[1][1]),
      field_to_0x32(proof.b[2][2]), field_to_0x32(proof.b[2][1]),
      field_to_0x32(proof.c[1]), field_to_0x32(proof.c[2])>>

proof_to_evm_words(proof) ==
    <<field_to_0x32(proof.a[1]), field_to_0x32(proof.a[2]),
      field_to_0x32(proof.b[1][1]), field_to_0x32(proof.b[1][2]),
      field_to_0x32(proof.b[2][1]), field_to_0x32(proof.b[2][2]),
      field_to_0x32(proof.c[1]), field_to_0x32(proof.c[2])>>

\* The satisfiability pre-check on a fresh constraint system, then the prover.
PreCheckAndProve(cs, pk, rng) ==
    IF ~cs.ok THEN cs
    ELSE IF ~cs.val.satisfied THEN Err("anyhow", "circuit constraints not satisfied")
    ELSE Ok(Groth16Prove(pk, cs.val.inputs, rng))

\* The match on witness.circuit_version of generate_proof.
ProveForVersion(witness, pk, rng) ==
    CASE witness.circuit_version = 1 ->
           LET axioms_commitment == decode_32byte_hex(witness.axioms_commitment_hex)
               theorem_hash == decode_32byte_hex(witness.theorem_hash_hex) IN
           IF ~axioms_commitment.ok THEN axioms_commitment
           ELSE IF ~theorem_hash.ok THEN theorem_hash
           ELSE PreCheckAndProve(
                    MVPGenerateConstraints(
                        [private_axioms |-> witness.private_axioms,
                         theorem |-> witness.theorem,
                         axioms_commitment |-> axioms_commitment.val,
                         theorem_hash |-> theorem_hash.val,
                         circuit_version |-> witness.circuit_version,
                         ruleset_id |-> witness.ruleset_id]),
                    pk, rng)
      [] witness.circuit_version = 2 ->
           LET circuit == build_tdfol_v1_v2_circuit(witness) IN
           IF ~circuit.ok THEN circuit
           ELSE PreCheckAndProve(V2GenerateConstraints(circuit.val), pk, rng)
      [] OTHER -> Err("anyhow", "unsupported circuit_version")

\* generate_proof(witness, seed), with what it reads from its environment: the
\* artifacts, the deterministic-mode variable, the OS RNG and the clock.
generate_proof(witness, seed, artifacts, env_deterministic, os_rng, now) ==
    IF witness.private_axioms = <<>> THEN Err("anyhow", "private_axioms cannot be empty")
    ELSE IF StrTrim(witness.theorem) = "" THEN Err("anyhow", "theorem cannot be empty")
    ELSE IF StrTrim(witness.ruleset_id) = "" THEN Err("anyhow", "ruleset_id cannot be empty")
    ELSE IF witness.circuit_version > MaxVersion
    THEN Err("anyhow", "circuit_version must be <= 255")
    ELSE
      LET pk == load_proving_key(artifacts, witness.circuit_version)
          deterministic == is_deterministic_mode(seed, env_deterministic)
          rng == IF seed.some THEN StdRngStream(seed.val) ELSE os_rng
          proof == ProveForVersion(witness, pk.val, rng)
          timestamp == IF deterministic THEN 0 ELSE now
          public_inputs_fr == fr_inputs_from_witness(witness)
          evm_public_inputs == [i \in 1..Len(public_inputs_fr.val) |->
                                    field_to_0x32(public_inputs_fr.val[i])]
          evm_proof == proof_to_evm_words(proof.val)
      IN
      IF ~pk.ok THEN pk
      ELSE IF ~proof.ok THEN proof
      ELSE IF ~public_inputs_fr.ok THEN public_inputs_fr
      ELSE Ok([schema_version |-> 1,
               proof_a |-> <<evm_proof[1], evm_proof[2]>>,
               proof_b |-> <<<<evm_proof[3], evm_proof[4]>>, <<evm_proof[5], evm_proof[6]>>>>,
               proof_c |-> <<evm_proof[7], evm_proof[8]>>,
               public_inputs |-> witness_to_public_inputs_wire(witness),
               timestamp |-> timestamp,
               version |-> witness.circuit_version,
               extra |-> MapInsert(MapInsert(witness.extra, "evm_proof",
                                             JsonStrings(evm_proof)),
                                   "evm_public_inputs", JsonStrings(evm_public_inputs))])

\* --------------------------------------------------------------- verifier
parse_public_inputs_fr(inputs) ==
    LET b == [i \in 1..Len(inputs) |-> parse_0x32_to_bytes(inputs[i])] IN
    IF \E i \in 1..Len(b) : ~b[i].ok THEN FirstError(b)
    ELSE Ok([i \in 1..Len(b) |-> FrFromBeBytesModOrder(b[i].val)])

\* Mutant of derive_public_inputs_fr: the wire public_inputs are used whenever
\* they can be read, extra.evm_public_inputs only otherwise.
derive_public_inputs_fr_WireFirst(proof) ==
    LET theorem_hash_bytes == parse_0x32_to_bytes(proof.public_inputs[1])
        axioms_commitment_bytes == parse_0x32_to_bytes(proof.public_inputs[2])
        circuit_version == ParseU32(proof.public_inputs[3])
        wire_ok == /\ Len(proof.public_inputs) = NumPublicInputs
                   /\ theorem_hash_bytes.ok /\ axioms_commitment_bytes.ok
                   /\ circuit_version.ok /\ circuit_version.val = proof.version IN
    IF wire_ok
    THEN Ok(<<FrFromBeBytesModOrder(theorem_hash_bytes.val),
              FrFromBeBytesModOrder(axioms_commitment_bytes.val),
              FrFromU64(circuit_version.val),
              sha256_fr(proof.public_inputs[4])>>)
    ELSE IF "evm_public_inputs" \notin DOMAIN proof.extra
    THEN Err("anyhow", "expected 4 public_inputs")
    ELSE LET v == proof.extra["evm_public_inputs"] IN
         IF v.t # "array"
         THEN Err("anyhow", "extra.evm_public_inputs must be an array")
         ELSE IF Len(v.items) # NumPublicInputs
         THEN Err("anyhow", "extra.evm_public_inputs must have 4 elements")
         ELSE IF \E i \in 1..Len(v.items) : v.items[i].t # "string"
         THEN Err("anyhow", "evm_public_inputs entries must be strings")
         ELSE parse_public_inputs_fr([i \in 1..Len(v.items) |-> v.items[i].s])

derive_public_inputs_fr(proof) ==
    IF "evm_public_inputs" \in DOMAIN proof.extra
    THEN LET v == proof.extra["evm_public_inputs"] IN
         IF v.t # "array"
         THEN Err("anyhow", "extra.evm_public_inputs must be an array")
         ELSE IF Len(v.items) # NumPublicInputs
         THEN Err("anyhow", "extra.evm_public_inputs must have 4 elements")
         ELSE IF \E i \in 1..Len(v.items) : v.items[i].t # "string"
         THEN Err("anyhow", "evm_public_inputs entries must be strings")
         ELSE parse_public_inputs_fr([i \in 1..Len(v.items) |-> v.items[i].s])
    ELSE IF Len(proof.public_inputs) # NumPublicInputs
    THEN Err("anyhow", "expected 4 public_inputs")
    ELSE
      LET theorem_hash_bytes == parse_0x32_to_bytes(proof.public_inputs[1])
          axioms_commitment_bytes == parse_0x32_to_bytes(proof.public_inputs[2])
          circuit_version == ParseU32(proof.public_inputs[3]) IN
      IF ~theorem_hash_bytes.ok THEN theorem_hash_bytes
      ELSE IF ~axioms_commitment_bytes.ok THEN axioms_commitment_bytes
      ELSE IF ~circuit_version.ok THEN circuit_version
      ELSE IF circuit_version.val # proof.version
      THEN Err("anyhow", "public_inputs[2] must match proof.version")
      ELSE Ok(<<FrFromBeBytesModOrder(theorem_hash_bytes.val),
                FrFromBeBytesModOrder(axioms_commitment_bytes.val),
                FrFromU64(circuit_version.val),
                sha256_fr(proof.public_inputs[4])>>)

parse_proof_from_extra(proof) ==
    IF "evm_proof" \notin DOMAIN proof.extra
    THEN Err("anyhow", "missing extra.evm_proof")
    ELSE
      LET v == proof.extra["evm_proof"] IN
      IF v.t # "array" THEN Err("anyhow", "extra.evm_proof must be an array")
      ELSE IF Len(v.items) # NumProofWords
      THEN Err("anyhow", "extra.evm_proof must have 8 elements")
      ELSE IF \E i \in 1..Len(v.items) : v.items[i].t # "string"
      THEN Err("anyhow", "evm_proof entries must be strings")
      ELSE
        LET b == [i \in 1..Len(v.items) |-> parse_0x32_to_bytes(v.items[i].s)]
            fq == [i \in 1..Len(b) |-> FqFromBeBytesModOrder(b[i].val)] IN
        IF \E i \in 1..Len(b) : ~b[i].ok THEN FirstError(b)
        ELSE Ok([a |-> <<fq[1], fq[2]>>,
                 b |-> <<<<fq[3], fq[4]>>, <<fq[5], fq[6]>>>>,
                 c |-> <<fq[7], fq[8]>>])

\* Mutant of SchemaSupported: the schema_version check is left out.
SchemaSupported_Unchecked(proof) == TRUE

SchemaSupported(proof) == proof.schema_version = SchemaVersion

\* Mutant of VersionMatchesInput: "public_inputs[2]" read as the second input.
VersionMatchesInput_WrongIndex(inputs, version) == inputs[2] = FrFromU64(version)

\* inputs[2] of the code: circuit_version_fr against the explicit version field.
VersionMatchesInput(inputs, version) == inputs[3] = FrFromU64(version)

Rejected == [result |-> Ok(FALSE), key_read |-> FALSE, pairing |-> FALSE]

\* verify_proof, with how far it got: whether it read the verifying key and
\* whether it ran the pairing check (and then with which key and inputs).
verify_proof(proof, artifacts) ==
    LET groth_proof == parse_proof_from_extra(proof)
        inputs == derive_public_inputs_fr(proof)
        vk == load_verifying_key(artifacts, proof.version) IN
    IF ~SchemaSupported(proof) THEN Rejected
    ELSE IF Len(proof.public_inputs) # NumPublicInputs THEN Rejected
    ELSE IF proof.version > MaxVersion THEN Rejected
    ELSE IF ~groth_proof.ok THEN Rejected
    ELSE IF ~inputs.ok THEN Rejected
    ELSE IF ~VersionMatchesInput(inputs.val, proof.version) THEN Rejected
    ELSE IF ~vk.ok THEN [result |-> vk, key_read |-> TRUE, pairing |-> FALSE]
    ELSE [result |-> Groth16VerifyProof(vk.val, groth_proof.val, inputs.val),
          key_read |-> TRUE, pairing |-> TRUE,
          vk |-> vk.val, vk_dir |-> proof.version, inputs |-> inputs.val]

\* ------------------------------------------------------------------ setup
\* Mutant of setup_to_dir: the seed is not used, the randomness is always
\* the operating system's.
setup_to_dir_OsRngOnly(version, seed, artifacts, os_rng) ==
    IF version > MaxVersion
    THEN [artifacts |-> artifacts,
          result |-> Err("anyhow", "circuit_version must be <= 255 for MVP circuit")]
    ELSE
      LET created == [artifacts EXCEPT ![version].exists = TRUE]
          keys == Groth16Setup(version, os_rng) IN
      IF version \in {1, 2}
      THEN [artifacts |-> [created EXCEPT ![version].keys = KeysOf(keys)],
            result |-> Ok([schema_version |-> 1,
                           version |-> version,
                           proving_key_sha256_hex |-> <<"pk", keys>>,
                           verifying_key_sha256_hex |-> <<"vk", keys>>,
                           vk_hash_hex |-> <<"vk", keys>>])]
      ELSE [artifacts |-> created,
            result |-> Err("anyhow", "unsupported circuit version")]

\* setup_to_dir(version, <root>/v{version}, seed) as lib.rs setup calls it:
\* the artifacts afterwards and the result (the manifest's hashes stand for
\* the key bytes they digest).
setup_to_dir(version, seed, artifacts, os_rng) ==
    IF version > MaxVersion
    THEN [artifacts |-> artifacts,
          result |-> Err("anyhow", "circuit_version must be <= 255 for MVP circuit")]
    ELSE
      LET rng == IF seed.some THEN StdRngStream(seed.val) ELSE os_rng
          created == [artifacts EXCEPT ![version].exists = TRUE]
          keys == Groth16Setup(version, rng) IN
      IF version \in {1, 2}
      THEN [artifacts |-> [created EXCEPT ![version].keys = KeysOf(keys)],
            result |-> Ok([schema_version |-> 1,
                           version |-> version,
                           proving_key_sha256_hex |-> <<"pk", keys>>,
                           verifying_key_sha256_hex |-> <<"vk", keys>>,
                           vk_hash_hex |-> <<"vk", keys>>])]
      ELSE [artifacts |-> created,
            result |-> Err("anyhow", "unsupported circuit version")]

\* =========================================================================
\* State
\* =========================================================================
VARIABLES
    circuit_in,     \* the arguments of a direct call of a circuit or commitment function
    circuit_out,    \* its result, once the call has run
    artifacts,      \* the artifacts root: artifacts[v] is the directory v{v}
    proved,         \* the last call of prove: its arguments and its result
    verified,       \* the last call of verify: its envelope and its result
    setup_runs,     \* the direct calls of setup_to_dir, each into a directory of its own
    calls           \* prove and verify calls in flight at the same time, by call id

pure_vars == <<circuit_in, circuit_out, setup_runs, calls>>
sys_vars == <<artifacts, proved, verified>>
vars == <<circuit_in, circuit_out, artifacts, proved, verified, setup_runs, calls>>

NoCall == [done |-> FALSE]
NoArtifacts == [d \in ArtifactDirs |-> NoDir]
SysIdle ==
    /\ artifacts = NoArtifacts /\ proved = NoCall /\ verified = NoCall
    /\ setup_runs = <<>> /\ calls = <<>>

\* ------------------------------------------------------------ input sets
\* Field elements the direct circuit calls are tried on (0 is the padding value).
FrSample == {0, 1, 2}
\* Axiom slots offered to the direct circuit calls: padding, facts,
\* implications and a malformed slot (an antecedent without a consequent).
AxiomPairSamples == {<<0, 0>>, <<0, 1>>, <<0, 2>>, <<1, 2>>, <<2, 1>>, <<1, 0>>}
PairFirsts(l) == [i \in 1..Len(l) |-> l[i][1]]
PairSeconds(l) == [i \in 1..Len(l) |-> l[i][2]]

\* Commitment words offered for an axiom list: the right one, a wrong one,
\* and the right one plus r (another word of the same field element).
CommitmentWordsFor(c) == {c, (c + 1) % WordCount, c + FrModulus}

V2CircuitInput(l, t, th, cw) ==
    [axiom_antecedents |-> PairFirsts(l),
     axiom_consequents |-> PairSeconds(l),
     trace_steps |-> t,
     axioms_commitment |-> cw,
     theorem_hash |-> th,
     circuit_version |-> 2,
     ruleset_id |-> "TDFOL_v1"]

\* ------------------------------------------------- direct circuit calls
\* A constraint system is synthesized from a v2 circuit instance (as the
\* prover's pre-check does) and the witness builder's accumulator is run on
\* the same, unpadded, vectors.
InitCircuit ==
    /\ \E n \in 0..MaxAxioms, m \in 0..MaxSteps :
         \E l \in [1..n -> AxiomPairSamples], t \in [1..m -> FrSample],
            th \in {1, 2, FrModulus + 1} :
           \E cw \in CommitmentWordsFor(
                        fr_to_32bytes_be(commit_axioms_v2(PairFirsts(l), PairSeconds(l)))) :
              circuit_in = V2CircuitInput(l, t, th, cw)
    /\ circuit_out = NoCall
    /\ SysIdle

SynthesizeV2 ==
    /\ ~circuit_out.done
    /\ circuit_out' = [done |-> TRUE,
                       cs |-> V2GenerateConstraints(circuit_in),
                       expected_commitment_fr |->
                           commit_axioms_v2(circuit_in.axiom_antecedents,
                                            circuit_in.axiom_consequents)]
    /\ UNCHANGED <<circuit_in, setup_runs, calls, sys_vars>>

NextCircuit == SynthesizeV2

SpecCircuit == InitCircuit /\ [][NextCircuit]_vars

\* --------------------------------------------- direct commitment calls
\* commit_axioms_v2 is run on two axiom lists, each of MAX_AXIOMS well-formed
\* (ant, cons) pairs (cons = 0 only in an unused slot, where ant = 0 too).
WellFormedPairs == { pr \in FrSample \X FrSample : pr[2] = 0 => pr[1] = 0 }

InitCommit ==
    /\ \E a \in [1..MaxAxioms -> WellFormedPairs], b \in [1..MaxAxioms -> WellFormedPairs] :
          circuit_in = [a |-> [ants |-> PairFirsts(a), cons |-> PairSeconds(a)],
                        b |-> [ants |-> PairFirsts(b), cons |-> PairSeconds(b)]]
    /\ circuit_out = NoCall
    /\ SysIdle

CommitBoth ==
    /\ ~circuit_out.done
    /\ circuit_out' = [done |-> TRUE,
                       commitment_a |-> commit_axioms_v2(circuit_in.a.ants, circuit_in.a.cons),
                       commitment_b |-> commit_axioms_v2(circuit_in.b.ants, circuit_in.b.cons)]
    /\ UNCHANGED <<circuit_in, setup_runs, calls, sys_vars>>

NextCommit == CommitBoth

SpecCommit == InitCommit /\ [][NextCommit]_vars

\* =========================================================================
\* The backend: setup, prove and verify over one artifacts root
\* =========================================================================
\* ---------------------------------------------------------------- witnesses
\* "01" repeated over the word, the all-zero word, and words that are r and 2r.
OnesHex == [i \in 1..HexLen |-> IF i % 2 = 0 THEN "1" ELSE "0"]
ZeroHex == [i \in 1..HexLen |-> "0"]
HexSamples ==
    {OnesHex, ZeroHex, HexEncode(FrModulus), HexEncode(2 * FrModulus),
     <<"0", "x">> \o OnesHex, <<"0", "X">> \o OnesHex,
     [i \in 1..HexLen |-> "z"], SubSeq(OnesHex, 1, HexLen - 1)}

VersionSamples == {0, 1, 2, 42, 255, 256}
RulesetSamples == {"TDFOL_v1", "CEC_v1", "", " "}

\* WitnessInput.security_level is an Option<u32>.
NoSecurityLevel == [some |-> FALSE]
SecurityLevel(n) == [some |-> TRUE, val |-> n]

Witness(axioms, theorem, steps, ac, th, version, ruleset) ==
    [private_axioms |-> axioms,
     theorem |-> theorem,
     intermediate_steps |-> steps,
     axioms_commitment_hex |-> ac,
     theorem_hash_hex |-> th,
     circuit_version |-> version,
     ruleset_id |-> ruleset,
     security_level |-> NoSecurityLevel,
     extra |-> EmptyMap]

AxiomsPQ == << <<"P">>, <<"P", "->", "Q">> >>
AxiomsAB == << <<"A">>, <<"A", "->", "B">> >>
AxiomsABC == << <<"A">>, <<"A", "->", "B">>, <<"B", "->", "C">> >>
\* Lists of exactly MAX_AXIOMS axioms and MAX_STEPS steps.
FullAxioms ==
    [i \in 1..MaxAxioms |->
        IF i = 1 THEN <<"A">> ELSE IF i = 2 THEN <<"A", "->", "B">> ELSE <<"B", "->", "C">>]
FullTrace == [i \in 1..MaxSteps |-> IF i = 1 THEN "B" ELSE "C"]

V1Witnesses ==
    { Witness(AxiomsPQ, "Q", <<>>, ac, th, 1, "TDFOL_v1") : ac \in HexSamples, th \in HexSamples }
    \cup { Witness(AxiomsPQ, "Q", <<>>, OnesHex, OnesHex, v, rs) :
              v \in VersionSamples, rs \in RulesetSamples }
    \cup { Witness(<<>>, "Q", <<>>, OnesHex, OnesHex, 1, "TDFOL_v1"),
           Witness(AxiomsPQ, "", <<>>, OnesHex, OnesHex, 1, "TDFOL_v1") }

AxiomListSamples ==
    { AxiomsPQ,
      << <<"Q">> >>,
      << <<"A">>, <<"A", "->", "B">> >>,
      << <<"P">>, <<"P">> >>,
      << <<"P">>, <<"P", "->", "->", "Q">> >>,
      << <<"P">>, <<"p q">> >>,
      [i \in 1..(MaxAxioms + 1) |-> <<"P">>] }
TraceSamples ==
    { <<"Q">>, <<>>, <<"C">>, <<"Q", "Q">>, <<"P", "Q">>, <<"p q">>,
      [i \in 1..(MaxSteps + 1) |-> "Q"] }

\* The commitment and theorem hash a caller computes for its axioms and theorem.
CallerCommitment(axioms) ==
    LET parsed == [i \in 1..Len(axioms) |-> parse_tdfol_v1_axiom(axioms[i])] IN
    IF \E i \in 1..Len(parsed) : ~parsed[i].ok THEN 1
    ELSE fr_to_32bytes_be(commit_axioms_v2(
             [i \in 1..Len(parsed) |->
                 IF parsed[i].val.ant.some THEN sha256_fr(parsed[i].val.ant.val) ELSE 0],
             [i \in 1..Len(parsed) |-> sha256_fr(parsed[i].val.cons)]))
HexForms(w) ==
    {HexEncode(w), <<"0", "x">> \o HexEncode(w), HexEncodeUpper(w),
     HexEncode((w + 1) % WordCount)}

V2Witnesses ==
    { Witness(l, "Q", t, HexEncode(CallerCommitment(l)), HexEncode(Sha256("Q")), 2, "TDFOL_v1") :
          l \in AxiomListSamples, t \in TraceSamples }
    \cup { Witness(AxiomsPQ, th, <<"Q">>, HexEncode(CallerCommitment(AxiomsPQ)),
                   HexEncode(Sha256(th)), 2, "TDFOL_v1") : th \in {"P", "C", "p q"} }
    \cup { Witness(AxiomsPQ, "Q", <<"Q">>, ac, th, 2, rs) :
              ac \in HexForms(CallerCommitment(AxiomsPQ)),
              th \in HexForms(Sha256("Q")),
              rs \in {"TDFOL_v1", "CEC_v1"} }

\* Further v2 witnesses for the prover alone: derivations in and out of order
\* over up to three axioms, declared hashes in their several spellings, and a
\* theorem with white space around it.
V2DerivationWitnesses ==
    { Witness(l, th, t, HexEncode(CallerCommitment(l)), HexEncode(Sha256(th)),
                   2, "TDFOL_v1") :
              l \in {AxiomsAB, AxiomsABC, FullAxioms},
              t \in {<<"B", "C">>, <<"C", "B">>, <<"C">>, <<"B">>, <<"B", "B">>, FullTrace},
              th \in {"B", "C"} }
    \cup { Witness(AxiomsAB, "B", <<"B">>, ac, th, 2, "TDFOL_v1") :
              ac \in HexForms(CallerCommitment(AxiomsAB)),
              th \in HexForms(Sha256("B")) }
    \cup { Witness(AxiomsPQ, " Q ", <<"Q">>, HexEncode(CallerCommitment(AxiomsPQ)),
                   HexEncode(Sha256(th)), 2, "TDFOL_v1") : th \in {"Q", " Q "} }

\* Witnesses with the optional fields of the Python side: a security_level
\* and further JSON keys (serde collects in extra the keys that are not
\* fields of WitnessInput), among them keys the prover writes itself.
ExtraSamples ==
    { EmptyMap,
      MapInsert(EmptyMap, "note", JsonString(<<"x">>)),
      MapInsert(EmptyMap, "evm_proof", JsonString(<<"m", "i", "n", "e">>)),
      MapInsert(MapInsert(EmptyMap, "note", JsonNumber(7)),
                "evm_public_inputs", JsonStrings(<<OnesHex>>)) }
OptionalFieldWitnesses ==
    { [w EXCEPT !.security_level = level, !.extra = extra] :
          w \in { Witness(AxiomsPQ, "Q", <<>>, OnesHex, OnesHex, 1, "TDFOL_v1"),
                  Witness(AxiomsPQ, "Q", <<"Q">>, HexEncode(CallerCommitment(AxiomsPQ)),
                          HexEncode(Sha256("Q")), 2, "TDFOL_v1") },
          level \in {NoSecurityLevel, SecurityLevel(128)},
          extra \in ExtraSamples }

\* ---------------------------------------------------------------- envelopes
TestEnvelope(public_inputs, version, extra) ==
    [schema_version |-> 1, proof_a |-> <<>>, proof_b |-> <<>>, proof_c |-> <<>>,
     public_inputs |-> public_inputs, timestamp |-> 0, version |-> version,
     extra |-> extra]

\* Well-formed EVM words that no prover made (points of no key).
ForgedExtra(version) ==
    MapInsert(MapInsert(EmptyMap, "evm_proof",
                        JsonStrings([i \in 1..NumProofWords |-> field_to_0x32(0)])),
              "evm_public_inputs",
              JsonStrings(<<field_to_0x32(1), field_to_0x32(1),
                            field_to_0x32(FrFromU64(version)), field_to_0x32(1)>>))

\* The envelopes of the verifier's unit tests, and forged well-formed ones.
HandMadeEnvelopes ==
    { TestEnvelope(<<"not", "enough">>, 1, EmptyMap),
      TestEnvelope(<<SubSeq(OnesHex, 1, HexLen - 1), <<"0", "x">> \o OnesHex,
                     <<"0", "x", "0", "1">>, <<"0", "x", "0", "2">> >>, 1, EmptyMap),
      TestEnvelope(<<<<"0", "x">> \o OnesHex, <<"0", "x">> \o OnesHex,
                     field_to_0x32(1), field_to_0x32(2)>>, 1, EmptyMap),
      TestEnvelope(<<OnesHex, OnesHex, <<"1">>, "TDFOL_v1">>, 2, EmptyMap) }
    \cup { TestEnvelope(<<OnesHex, OnesHex, ToDecimalString(v), "TDFOL_v1">>, v, ForgedExtra(v)) :
              v \in {1, 42} }
    \cup { TestEnvelope(<<OnesHex, OnesHex, <<"1">>, "TDFOL_v1">>, 1,
                        MapRemove(ForgedExtra(1), "evm_public_inputs")) }

EvmPublicInputWords(p) ==
    [i \in 1..Len(p.extra["evm_public_inputs"].items) |->
        p.extra["evm_public_inputs"].items[i].s]
EvmProofWords(p) ==
    [i \in 1..Len(p.extra["evm_proof"].items) |-> p.extra["evm_proof"].items[i].s]
WithExtra(p, k, v) == [p EXCEPT !.extra = MapInsert(p.extra, k, v)]

\* Another word for x: x + r (the same field element), x + 1, and x again
\* in upper case under a 0X prefix.
OtherWords(w) ==
    LET x == parse_0x32_to_bytes(w).val IN
    { field_to_0x32((x + FrModulus) % WordCount),
      field_to_0x32((x + 1) % WordCount),
      <<"0", "X">> \o HexEncodeUpper(x) }

\* What a third party can make of a proof output before it is verified.
Tamperings(p) ==
    LET pub == EvmPublicInputWords(p)
        prf == EvmProofWords(p) IN
    { p,
      [p EXCEPT !.schema_version = 2],
      [p EXCEPT !.public_inputs = SubSeq(p.public_inputs, 1, 2)],
      [p EXCEPT !.version = MaxVersion + 1],
      [p EXCEPT !.version = 3 - p.version],
      [p EXCEPT !.extra = MapRemove(p.extra, "evm_proof")],
      [p EXCEPT !.extra = MapRemove(p.extra, "evm_public_inputs")],
      WithExtra(p, "evm_proof", JsonString(prf[1])),
      WithExtra(p, "evm_proof", JsonStrings(SubSeq(prf, 1, NumProofWords - 1))),
      WithExtra(p, "evm_proof", JsonStrings([prf EXCEPT ![1] = [i \in 1..HexLen |-> "z"]])),
      WithExtra(p, "evm_proof", JsonArray([i \in 1..NumProofWords |-> JsonNumber(1)])),
      WithExtra(p, "evm_proof",
                JsonStrings([prf EXCEPT ![2] = field_to_0x32(parse_0x32_to_bytes(prf[2]).val + 1)])),
      WithExtra(p, "evm_public_inputs", JsonString(pub[1])),
      WithExtra(p, "evm_public_inputs", JsonStrings(SubSeq(pub, 1, NumPublicInputs - 1))),
      WithExtra(p, "evm_public_inputs", JsonStrings([pub EXCEPT ![1] = <<"0", "x">>])) }
    \cup UNION { { WithExtra(p, "evm_public_inputs", JsonStrings([pub EXCEPT ![i] = w])) :
                      w \in OtherWords(pub[i]) } : i \in 1..NumPublicInputs }

\* ------------------------------------------------------------------ actions
SetupVersions == {1, 2, 42, 256}
Clock == {5}

Init ==
    /\ circuit_in = NoCall
    /\ circuit_out = NoCall
    /\ SysIdle

\* lib.rs setup(version, seed), between sessions of prove and verify.
Setup ==
    /\ ~proved.done /\ ~verified.done
    /\ \E version \in SetupVersions, seed \in {NoSeed} \cup {SomeSeed(n) : n \in Seeds},
          os_rng \in OsRngStreams :
          artifacts' = setup_to_dir(version, seed, artifacts, os_rng).artifacts
    /\ UNCHANGED <<pure_vars, proved, verified>>

\* The artifacts root is deleted (as the round-trip test does when it ends).
RemoveArtifacts ==
    /\ ~verified.done
    /\ artifacts # NoArtifacts
    /\ artifacts' = NoArtifacts
    /\ UNCHANGED <<pure_vars, proved, verified>>

\* lib.rs prove(witness_json, seed).
ProveOneOf(witnesses, environments) ==
    /\ ~proved.done /\ ~verified.done
    /\ \E witness \in witnesses,
          seed \in {NoSeed} \cup {SomeSeed(n) : n \in Seeds},
          env_deterministic \in environments,
          os_rng \in OsRngStreams, now \in Clock :
          proved' = [done |-> TRUE,
                     witness |-> witness,
                     seed |-> seed,
                     deterministic |-> is_deterministic_mode(seed, env_deterministic),
                     artifacts |-> artifacts,
                     result |-> generate_proof(witness, seed, artifacts,
                                               env_deterministic, os_rng, now)]
    /\ UNCHANGED <<pure_vars, artifacts, verified>>

Prove == ProveOneOf(V1Witnesses \cup V2Witnesses, {EnvUnset, EnvSet("1")})
ProveDerivation == ProveOneOf(V2DerivationWitnesses, {EnvUnset, EnvSet("1")})
ProveOptionalFields == ProveOneOf(OptionalFieldWitnesses, EnvSamples)

\* lib.rs verify(proof_json): the output of the last prove, possibly altered
\* on its way, or an envelope made by hand.
Verify ==
    /\ ~verified.done
    /\ \E envelope \in IF proved.done /\ proved.result.ok
                       THEN Tamperings(proved.result.val)
                       ELSE HandMadeEnvelopes :
          verified' = [done |-> TRUE,
                       envelope |-> envelope,
                       out |-> verify_proof(envelope, artifacts)]
    /\ UNCHANGED <<pure_vars, artifacts, proved>>

\* The next session starts: the results of the last calls are dropped.
Reset ==
    /\ proved.done \/ verified.done
    /\ proved' = NoCall
    /\ verified' = NoCall
    /\ UNCHANGED <<pure_vars, artifacts>>

Next == Setup \/ RemoveArtifacts \/ Prove \/ Verify \/ Reset

Spec == Init /\ [][Next]_vars

\* The prover alone: sessions of setup and prove, nothing verified.
NextProve == Setup \/ Prove \/ ProveDerivation \/ ProveOptionalFields \/ Reset

SpecProve == Init /\ [][NextProve]_vars

\* The verifier on the proofs of a few witnesses: sessions of setup, prove and
\* verify over the witnesses with optional fields.
NextVerify == Setup \/ ProveOptionalFields \/ Verify \/ Reset

SpecVerify == Init /\ [][NextVerify]_vars

\* The prover alone on the witnesses with optional fields, under every seed,
\* environment and OS random stream of the model.
NextProveOptions == Setup \/ ProveOptionalFields \/ Reset

SpecProveOptions == Init /\ [][NextProveOptions]_vars

\* --------------------------------------- direct calls on a circuit_version
\* One circuit_version is given to the three places that range-check it:
\* MVPCircuit::generate_constraints (as the circuit unit tests call it),
\* generate_proof and setup_to_dir.
MVPVersionSamples == {0, 1, 2, 42, 255, 256, 257, 65536}
MVPWordSamples == {0, 1, FrModulus, WordCount - 1}

InitMVP ==
    /\ \E v \in MVPVersionSamples, ac \in MVPWordSamples, th \in MVPWordSamples,
          rs \in {"TDFOL_v1", "CEC_v1", ""} :
          circuit_in = [private_axioms |-> AxiomsPQ,
                        theorem |-> "Q",
                        axioms_commitment |-> ac,
                        theorem_hash |-> th,
                        circuit_version |-> v,
                        ruleset_id |-> rs]
    /\ circuit_out = NoCall
    /\ SysIdle

SynthesizeMVP ==
    /\ ~circuit_out.done
    /\ \E seed \in {NoSeed} \cup {SomeSeed(n) : n \in Seeds}, os_rng \in OsRngStreams,
          now \in Clock :
          circuit_out' =
              [done |-> TRUE,
               cs |-> MVPGenerateConstraints(circuit_in),
               prove |-> generate_proof(
                             Witness(circuit_in.private_axioms, circuit_in.theorem, <<>>,
                                     HexEncode(circuit_in.axioms_commitment),
                                     HexEncode(circuit_in.theorem_hash),
                                     circuit_in.circuit_version, circuit_in.ruleset_id),
                             seed, artifacts, EnvUnset, os_rng, now),
               setup |-> setup_to_dir(circuit_in.circuit_version, seed,
                                      [d \in {circuit_in.circuit_version} |-> NoDir],
                                      os_rng).result]
    /\ UNCHANGED <<circuit_in, setup_runs, calls, sys_vars>>

NextMVP == SynthesizeMVP

SpecMVP == InitMVP /\ [][NextMVP]_vars

\* ------------------------------------------- direct runs of setup_to_dir
\* Each run writes into a fresh directory of its own (out_dir), as the tests
\* of setup.rs do with their temporary directories.
InitSetup == circuit_in = NoCall /\ circuit_out = NoCall /\ SysIdle

SetupToDir ==
    /\ Len(setup_runs) < MaxSetupRuns
    /\ \E version \in SetupVersions, seed \in {NoSeed} \cup {SomeSeed(n) : n \in Seeds},
          os_rng \in OsRngStreams :
          LET out == setup_to_dir(version, seed, [d \in {version} |-> NoDir], os_rng) IN
          setup_runs' = Append(setup_runs,
                               [out_dir |-> Len(setup_runs) + 1,
                                version |-> version,
                                seed |-> seed,
                                files |-> out.artifacts[version],
                                result |-> out.result])
    /\ UNCHANGED <<circuit_in, circuit_out, calls, sys_vars>>

NextSetup == SetupToDir

SpecSetup == InitSetup /\ [][NextSetup]_vars

\* ------------------------------------------ prove and verify side by side
\* MaxCalls calls of prove or verify are in flight at once over one artifacts
\* root. Each call takes two steps: it validates its input and reads its key
\* file into memory (when it gets that far), and later it computes its
\* result from what it read. The steps of different calls interleave freely.
CallIds == 1..MaxCalls
SetupOnce(root, version) == setup_to_dir(version, SomeSeed(1), root, 1).artifacts
KeyFileStates ==
    { NoArtifacts,
      SetupOnce(NoArtifacts, 1),
      SetupOnce(SetupOnce(NoArtifacts, 1), 2) }
ConcurrentWitnesses ==
    { Witness(AxiomsPQ, "Q", <<>>, OnesHex, OnesHex, 1, "TDFOL_v1"),
      Witness(AxiomsPQ, "Q", <<"Q">>, HexEncode(CallerCommitment(AxiomsPQ)),
              HexEncode(Sha256("Q")), 2, "TDFOL_v1"),
      Witness(AxiomsPQ, "", <<>>, OnesHex, OnesHex, 1, "TDFOL_v1") }
ProveCall(witness, seed) == [kind |-> "prove", witness |-> witness, seed |-> seed]
VerifyCall(envelope) == [kind |-> "verify", envelope |-> envelope]
\* The envelopes verified: proofs made under the keys of a full setup, one of
\* them with its version changed.
ConcurrentEnvelopes ==
    LET full == SetupOnce(SetupOnce(NoArtifacts, 1), 2)
        made == { generate_proof(w, SomeSeed(1), full, EnvUnset, 1, 0).val :
                      w \in { x \in ConcurrentWitnesses : StrTrim(x.theorem) # "" } } IN
    made \cup { [e EXCEPT !.version = 42] : e \in made }
CallArguments ==
    { ProveCall(w, seed) : w \in ConcurrentWitnesses, seed \in {NoSeed, SomeSeed(1)} }
    \cup { VerifyCall(e) : e \in ConcurrentEnvelopes }

\* What one call returns over the artifacts it read (the OS random stream and
\* the clock of a call are its own).
RunCall(args, root) ==
    IF args.kind = "prove"
    THEN generate_proof(args.witness, args.seed, root, EnvUnset, 1, 5)
    ELSE verify_proof(args.envelope, root).result
\* Whether the call gets as far as reading its key file, and which.
CallKeyVersion(args) ==
    IF args.kind = "prove" THEN args.witness.circuit_version ELSE args.envelope.version
CallReadsKey(args, root) ==
    IF args.kind = "prove"
    THEN /\ args.witness.private_axioms # <<>>
         /\ StrTrim(args.witness.theorem) # ""
         /\ StrTrim(args.witness.ruleset_id) # ""
         /\ args.witness.circuit_version <= MaxVersion
    ELSE verify_proof(args.envelope, root).key_read

\* Each call remembers the root it started over.
InitConcurrent ==
    /\ circuit_in = NoCall /\ circuit_out = NoCall
    /\ proved = NoCall /\ verified = NoCall /\ setup_runs = <<>>
    /\ artifacts \in KeyFileStates
    /\ \E args \in [CallIds -> CallArguments] :
          calls = [i \in CallIds |-> [args |-> args[i], pc |-> "ready", root |-> artifacts]]

CallReadKey(i) ==
    /\ calls[i].pc = "ready"
    /\ calls' = [calls EXCEPT ![i] = [args |-> @.args, pc |-> "loaded", root |-> @.root,
                                      read |-> artifacts]]
    /\ artifacts' = IF CallReadsKey(calls[i].args, artifacts)
                    THEN FsAfterKeyRead(artifacts, CallKeyVersion(calls[i].args))
                    ELSE artifacts
    /\ UNCHANGED <<circuit_in, circuit_out, setup_runs, proved, verified>>

CallReturn(i) ==
    /\ calls[i].pc = "loaded"
    /\ calls' = [calls EXCEPT ![i] = [args |-> @.args, pc |-> "done", root |-> @.root,
                                      read |-> @.read,
                                      result |-> RunCall(@.args, @.read)]]
    /\ UNCHANGED <<circuit_in, circuit_out, setup_runs, sys_vars>>

ReadKeyStep == \E i \in CallIds : CallReadKey(i)
ReturnStep == \E i \in CallIds : CallReturn(i)

NextConcurrent == ReadKeyStep \/ ReturnStep

SpecConcurrent == InitConcurrent /\ [][NextConcurrent]_vars

\* =========================================================================
\* Properties of the direct circuit calls
\* =========================================================================
SynthesizedOk == circuit_out.done /\ circuit_out.cs.ok
Satisfied == SynthesizedOk /\ circuit_out.cs.val.satisfied

\* Forward chaining: the facts, closed under the implication axioms.
FactSet(ants, cons) ==
    { cons[i] : i \in { j \in 1..MaxAxioms : ants[j] = 0 /\ cons[j] # 0 } }
ChainStep(S, ants, cons) ==
    S \cup { cons[i] : i \in { j \in 1..MaxAxioms :
                                 ants[j] # 0 /\ cons[j] # 0 /\ ants[j] \in S } }
RECURSIVE Chain(_, _, _, _)
Chain(S, ants, cons, n) ==
    IF n = 0 THEN S ELSE Chain(ChainStep(S, ants, cons), ants, cons, n - 1)
ForwardClosure(ants, cons) == Chain(FactSet(ants, cons), ants, cons, MaxAxioms)

\* C2: whenever every constraint of circuit v2 is satisfied, the theorem_hash
\* public input is in the forward-chaining closure of the facts under the
\* implication axioms, and so is every non-zero trace entry.
C2_TheoremInClosure ==
    Satisfied =>
        LET v == circuit_out.cs.val
            closure == ForwardClosure(v.ants, v.cons) IN
        /\ v.inputs[1] \in closure
        /\ \A k \in 1..MaxSteps : v.trace[k] # 0 => v.trace[k] \in closure

\* A satisfied instance whose theorem is no fact: it was derived by an implication.
C2_Witness ==
    /\ Satisfied
    /\ ~fact_membership(circuit_out.cs.val.ants, circuit_out.cs.val.cons,
                        circuit_out.cs.val.inputs[1])

\* sum_i (cons_i + 7 ant_i) 13^i over the padded slots, reduced once at the end.
RECURSIVE TermSum(_, _, _)
TermSum(ants, cons, i) ==
    IF i > MaxAxioms THEN 0
    ELSE (cons[i] + TDFOL_V1_V2_ALPHA * ants[i]) * Pow(TDFOL_V1_V2_BETA, i - 1)
         + TermSum(ants, cons, i + 1)

\* C4: the accumulator the witness builder computes over the unpadded vectors
\* equals the one the circuit accumulates over the vectors padded with (0, 0),
\* and both are sum_i (cons_i + 7 ant_i) 13^i in the field.
C4_CommitmentAgreement ==
    SynthesizedOk =>
        /\ circuit_out.expected_commitment_fr = circuit_out.cs.val.commitment
        /\ circuit_out.cs.val.commitment
             = TermSum(circuit_out.cs.val.ants, circuit_out.cs.val.cons, 1) % FrModulus

\* A list shorter than MAX_AXIOMS with an implication in its last used slot.
C4_Witness ==
    /\ SynthesizedOk
    /\ Len(circuit_in.axiom_antecedents) \in 1..(MaxAxioms - 1)
    /\ circuit_in.axiom_antecedents[Len(circuit_in.axiom_antecedents)] # 0
    /\ circuit_out.expected_commitment_fr # 0

\* =========================================================================
\* Properties of the direct commitment calls
\* =========================================================================
\* C5: the axioms commitment is collision-free on fixed-size lists: two
\* different lists of MAX_AXIOMS well-formed (ant, cons) pairs never yield the
\* same commitment.
C5_CollisionFree ==
    (circuit_out.done /\ circuit_in.a # circuit_in.b)
        => circuit_out.commitment_a # circuit_out.commitment_b

\* =========================================================================
\* Properties of the backend
\* =========================================================================
ProvedOk == proved.done /\ proved.result.ok
KeyFileMissing(version) ==
    version \notin DOMAIN artifacts \/ ~artifacts[version].keys.present

\* verify ran on exactly what prove returned, and the artifacts are those
\* prove read.
RoundTrip ==
    /\ ProvedOk
    /\ verified.done
    /\ verified.envelope = proved.result.val
    /\ artifacts = proved.artifacts

\* C1: for every witness that prove accepts under the keys setup wrote,
\* verify on the resulting ProofOutput, with the artifacts unchanged in
\* between, returns true.
C1_ProveThenVerify == RoundTrip => verified.out.result = Ok(TRUE)

\* A proof of the v2 derivation circuit is verified under the keys it was made with.
C1_Witness ==
    /\ RoundTrip
    /\ proved.witness.circuit_version = 2
    /\ verified.out.pairing

\* The envelope verified is the proof output with word i of
\* extra.evm_public_inputs replaced by another 32-byte hex word.
WordReplaced(i) ==
    /\ ProvedOk
    /\ verified.done
    /\ "evm_public_inputs" \in DOMAIN verified.envelope.extra
    /\ verified.envelope.extra["evm_public_inputs"].t = "array"
    /\ Len(verified.envelope.extra["evm_public_inputs"].items) = NumPublicInputs
    /\ verified.envelope =
          WithExtra(proved.result.val, "evm_public_inputs",
                    JsonStrings([EvmPublicInputWords(proved.result.val)
                                    EXCEPT ![i] = EvmPublicInputWords(verified.envelope)[i]]))
    /\ parse_0x32_to_bytes(EvmPublicInputWords(verified.envelope)[i]).ok
    /\ parse_0x32_to_bytes(EvmPublicInputWords(verified.envelope)[i]).val
          # parse_0x32_to_bytes(EvmPublicInputWords(proved.result.val)[i]).val
OriginalVerifies == ProvedOk /\ verify_proof(proved.result.val, artifacts).result = Ok(TRUE)
SameFieldElement(i) ==
    FrFromBeBytesModOrder(parse_0x32_to_bytes(EvmPublicInputWords(verified.envelope)[i]).val)
      = FrFromBeBytesModOrder(parse_0x32_to_bytes(EvmPublicInputWords(proved.result.val)[i]).val)

\* C3 as stated: from a proof output that verifies, replacing any word of
\* extra.evm_public_inputs by any different 32-byte hex word makes verify
\* return false.
C3_AnyDifferentWord ==
    \A i \in 1..NumPublicInputs :
        (WordReplaced(i) /\ OriginalVerifies) => verified.out.result = Ok(FALSE)

\* C3 amended: from a proof output that verifies, replacing any word of
\* extra.evm_public_inputs by a 32-byte hex word that is a different field
\* element (a different residue modulo r) makes verify return false.
C3_DifferentFieldElement ==
    \A i \in 1..NumPublicInputs :
        (WordReplaced(i) /\ ~SameFieldElement(i) /\ OriginalVerifies)
            => verified.out.result = Ok(FALSE)

\* The ruleset word of a verifying proof was replaced by another field
\* element and the pairing check refused it.
C3_Witness ==
    /\ WordReplaced(4)
    /\ ~SameFieldElement(4)
    /\ OriginalVerifies
    /\ verified.out.pairing
    /\ verified.out.result = Ok(FALSE)

\* The structural defects of an envelope, as the claim lists them.
MalformedEvmProof(e) == ~parse_proof_from_extra(e).ok
UnparsablePublicInputs(e) == ~derive_public_inputs_fr(e).ok
VersionInputMismatch(e) ==
    /\ derive_public_inputs_fr(e).ok
    /\ derive_public_inputs_fr(e).val[3] # FrFromU64(e.version)
StructurallyInvalid(e) ==
    \/ e.schema_version # 1
    \/ Len(e.public_inputs) # 4
    \/ e.version > 255
    \/ MalformedEvmProof(e)
    \/ UnparsablePublicInputs(e)
    \/ VersionInputMismatch(e)

C7_MissingKeyIsError ==
    (/\ verified.done
     /\ KeyFileMissing(verified.envelope.version)
     /\ ~StructurallyInvalid(verified.envelope))
        => ~verified.out.result.ok

\* A genuine proof is verified after the artifacts were removed.
C7_Witness ==
    /\ ProvedOk
    /\ verified.done
    /\ verified.envelope = proved.result.val
    /\ KeyFileMissing(verified.envelope.version)
    /\ ~verified.out.result.ok

\* C8: verify reaches the pairing check, or returns true, only if the third
\* derived public input equals Fr(proof.version), and the key it uses is the
\* one stored for proof.version.
C8_VersionBound ==
    (verified.done /\ (verified.out.pairing \/ verified.out.result = Ok(TRUE)))
        => /\ verified.out.pairing
           /\ derive_public_inputs_fr(verified.envelope).ok
           /\ derive_public_inputs_fr(verified.envelope).val[3]
                 = FrFromU64(verified.envelope.version)
           /\ verified.out.vk_dir = verified.envelope.version
           /\ verified.out.vk = artifacts[verified.envelope.version].keys.key

\* The pairing check is reached with inputs derived from the wire-format
\* public_inputs (no extra.evm_public_inputs).
C8_Witness ==
    /\ verified.done
    /\ verified.out.pairing
    /\ "evm_public_inputs" \notin DOMAIN verified.envelope.extra
    /\ verified.out.result = Ok(TRUE)

\* C9: a witness with both hex fields 01 repeated, any circuit_version in
\* 0..255 (for which setup was run) and any non-empty ruleset_id is proven
\* successfully, with that version in ProofOutput.version and public_inputs[2].
C9_V1Acceptance ==
    (/\ proved.done
     /\ proved.witness.private_axioms # <<>>
     /\ proved.witness.theorem # ""
     /\ proved.witness.axioms_commitment_hex = OnesHex
     /\ proved.witness.theorem_hash_hex = OnesHex
     /\ proved.witness.circuit_version \in 0..255
     /\ proved.witness.circuit_version \in DOMAIN proved.artifacts
     /\ proved.artifacts[proved.witness.circuit_version].exists
     /\ proved.witness.ruleset_id # "")
        => /\ proved.result.ok
           /\ proved.result.val.version = proved.witness.circuit_version
           /\ proved.result.val.public_inputs[3]
                 = ToDecimalString(proved.witness.circuit_version)

ReducesToZero(hex) ==
    /\ decode_32byte_hex(hex).ok
    /\ FrFromBeBytesModOrder(decode_32byte_hex(hex).val) = 0

\* C10: for circuit v1, a theorem_hash or axioms_commitment word that is zero
\* modulo r is rejected; with both words decodable and the proving key in
\* place, by a synthesis error or by the failed satisfiability pre-check.
C10_ZeroResidueRejected ==
    (/\ proved.done
     /\ proved.witness.circuit_version = 1
     /\ \/ ReducesToZero(proved.witness.theorem_hash_hex)
        \/ ReducesToZero(proved.witness.axioms_commitment_hex))
        => /\ ~proved.result.ok
           /\ (/\ decode_32byte_hex(proved.witness.theorem_hash_hex).ok
               /\ decode_32byte_hex(proved.witness.axioms_commitment_hex).ok
               /\ proved.artifacts[1].keys.present
               /\ proved.witness.private_axioms # <<>>
               /\ proved.witness.theorem # ""
               /\ proved.witness.ruleset_id # "")
                 => proved.result \in
                       {Err("SynthesisError", "AssignmentMissing"),
                        Err("anyhow", "circuit constraints not satisfied")}

\* A theorem hash that is the non-zero word 2r fails the pre-check.
C10_Witness ==
    /\ proved.done
    /\ proved.witness.circuit_version = 1
    /\ proved.witness.theorem_hash_hex = HexEncode(2 * FrModulus)
    /\ proved.witness.axioms_commitment_hex = OnesHex
    /\ proved.artifacts[1].keys.present
    /\ proved.result = Err("anyhow", "circuit constraints not satisfied")

\* =========================================================================
\* Properties of the direct calls on a circuit_version
\* =========================================================================
MVPFieldsValid ==
    /\ circuit_in.axioms_commitment # 0
    /\ circuit_in.theorem_hash # 0
    /\ circuit_in.ruleset_id # ""

\* C11: with the other fields valid, MVPCircuit constraint generation succeeds
\* for every circuit_version in 0..255 and returns an error for every
\* circuit_version >= 256; generate_proof and setup_to_dir refuse a version
\* above 255 as well, each by its own range check.
C11_VersionRange ==
    (circuit_out.done /\ MVPFieldsValid)
        => /\ circuit_in.circuit_version \in 0..255 => circuit_out.cs.ok
           /\ circuit_in.circuit_version >= 256 =>
                 /\ circuit_out.cs = Err("SynthesisError", "AssignmentMissing")
                 /\ circuit_out.prove = Err("anyhow", "circuit_version must be <= 255")
                 /\ circuit_out.setup
                       = Err("anyhow", "circuit_version must be <= 255 for MVP circuit")

\* The largest version is accepted by the circuit.
C11_Witness ==
    /\ circuit_out.done
    /\ MVPFieldsValid
    /\ circuit_in.circuit_version = 255
    /\ circuit_out.cs.ok
    /\ circuit_out.cs.val.inputs[3] = FrFromU64(255)

\* =========================================================================
\* Properties of the prover
\* =========================================================================
\* The last prove call got as far as the v2 witness builder: the basic
\* validation passed and the proving key of version 2 was read.
ReachedBuilderV2 ==
    /\ proved.done
    /\ proved.witness.circuit_version = 2
    /\ proved.witness.private_axioms # <<>>
    /\ StrTrim(proved.witness.theorem) # ""
    /\ StrTrim(proved.witness.ruleset_id) # ""
    /\ proved.artifacts[2].keys.present
AxiomsParse(w) ==
    \A i \in 1..Len(w.private_axioms) : parse_tdfol_v1_axiom(w.private_axioms[i]).ok
StepsAreAtoms(w) ==
    \A i \in 1..Len(w.intermediate_steps) : is_tdfol_atom(StrTrim(w.intermediate_steps[i]))
DeclaresComputedHashes(w) ==
    /\ w.axioms_commitment_hex = HexEncode(CallerCommitment(w.private_axioms))
    /\ w.theorem_hash_hex = HexEncode(Sha256(StrTrim(w.theorem)))
PreCheckFailed == proved.result = Err("anyhow", "circuit constraints not satisfied")

\* C12: the v2 witness builder accepts MAX_AXIOMS axioms and MAX_STEPS steps
\* (prove then proves or fails only in the pre-check), and refuses with its own
\* error, before synthesis, more than MAX_AXIOMS axioms, more than MAX_STEPS
\* steps and an empty trace.
C12_BuilderLimits ==
    (/\ ReachedBuilderV2
     /\ proved.witness.ruleset_id = "TDFOL_v1"
     /\ is_tdfol_atom(StrTrim(proved.witness.theorem)))
        => LET w == proved.witness IN
           /\ Len(w.private_axioms) > MaxAxioms
                 => proved.result = Err("anyhow", "too many axioms for circuit_version=2")
           /\ (Len(w.private_axioms) <= MaxAxioms /\ AxiomsParse(w))
                 => /\ w.intermediate_steps = <<>>
                         => proved.result
                              = Err("anyhow",
                                    "intermediate_steps must be non-empty for circuit_version=2")
                    /\ Len(w.intermediate_steps) > MaxSteps
                         => proved.result
                              = Err("anyhow",
                                    "too many intermediate_steps for circuit_version=2")
                    /\ (/\ Len(w.private_axioms) = MaxAxioms
                        /\ Len(w.intermediate_steps) = MaxSteps
                        /\ StepsAreAtoms(w)
                        /\ DeclaresComputedHashes(w))
                         => /\ build_tdfol_v1_v2_circuit(w).ok
                            /\ proved.result.ok \/ PreCheckFailed

\* A witness with MAX_AXIOMS axioms and MAX_STEPS steps is proven.
C12_Witness ==
    /\ ReachedBuilderV2
    /\ Len(proved.witness.private_axioms) = MaxAxioms
    /\ Len(proved.witness.intermediate_steps) = MaxSteps
    /\ proved.result.ok

HasDuplicateStep(w) ==
    \E i \in 1..Len(w.intermediate_steps), j \in 1..Len(w.intermediate_steps) :
        i < j /\ StrTrim(w.intermediate_steps[i]) = StrTrim(w.intermediate_steps[j])

\* C13: a v2 witness whose trace holds the same atom at two positions is never
\* proven; when the witness builder accepts it, it is the satisfiability
\* pre-check that fails.
C13_DuplicateStepRejected ==
    (proved.done /\ proved.witness.circuit_version = 2 /\ HasDuplicateStep(proved.witness))
        => /\ ~proved.result.ok
           /\ (ReachedBuilderV2 /\ build_tdfol_v1_v2_circuit(proved.witness).ok)
                 => PreCheckFailed

\* The trace repeats the theorem, which the axioms derive: every step is
\* justified and only the uniqueness constraint fails.
C13_Witness ==
    /\ ReachedBuilderV2
    /\ proved.witness.private_axioms = AxiomsPQ
    /\ proved.witness.intermediate_steps = <<"Q", "Q">>
    /\ proved.witness.theorem = "Q"
    /\ PreCheckFailed

\* The axioms of a witness read as logic: its facts and its implications.
ParsedAxioms(w) == { parse_tdfol_v1_axiom(w.private_axioms[i]).val : i \in 1..Len(w.private_axioms) }
FactAtoms(w) == { ax.cons : ax \in { a \in ParsedAxioms(w) : ~a.ant.some } }
Implications(w) == { a \in ParsedAxioms(w) : a.ant.some }
StepAtoms(w) == { StrTrim(w.intermediate_steps[i]) : i \in 1..Len(w.intermediate_steps) }
StepDerivable(w, k) ==
    LET step == StrTrim(w.intermediate_steps[k]) IN
    \/ step \in FactAtoms(w)
    \/ \E imp \in Implications(w) :
          /\ imp.cons = step
          /\ \/ imp.ant.val \in FactAtoms(w)
             \/ \E j \in 1..(k - 1) : StrTrim(w.intermediate_steps[j]) = imp.ant.val
DerivationPrecondition ==
    /\ ReachedBuilderV2
    /\ build_tdfol_v1_v2_circuit(proved.witness).ok
    /\ ~HasDuplicateStep(proved.witness)
    /\ StrTrim(proved.witness.theorem) \in FactAtoms(proved.witness) \cup StepAtoms(proved.witness)

\* C14: for a v2 witness the builder accepts, with pairwise distinct trace atoms
\* and the theorem among the facts or the trace, prove succeeds exactly when
\* every trace step is a fact or the consequent of an implication whose
\* antecedent is a fact or an earlier trace step; otherwise the pre-check
\* fails. The order of the trace matters: [B, C] passes and [C, B] fails for
\* the axioms [A, A -> B, B -> C].
C14_StepJustification ==
    DerivationPrecondition
        => LET w == proved.witness
               justified == \A k \in 1..Len(w.intermediate_steps) : StepDerivable(w, k) IN
           /\ proved.result.ok <=> justified
           /\ ~justified => PreCheckFailed
           /\ (w.private_axioms = AxiomsABC /\ w.intermediate_steps = <<"B", "C">>)
                 => proved.result.ok
           /\ (w.private_axioms = AxiomsABC /\ w.intermediate_steps = <<"C", "B">>)
                 => PreCheckFailed
           /\ (w.private_axioms = AxiomsAB /\ w.intermediate_steps = <<"C">>)
                 => PreCheckFailed

\* The same steps in the wrong order: C is claimed before B, its only support.
C14_Witness ==
    /\ DerivationPrecondition
    /\ proved.witness.private_axioms = AxiomsABC
    /\ proved.witness.intermediate_steps = <<"C", "B">>
    /\ proved.witness.theorem = "C"
    /\ PreCheckFailed

UnsupportedRuleset ==
    Err("anyhow", "circuit_version=2 currently supports ruleset_id=TDFOL_v1 only")

\* C15: a v2 prove call whose ruleset_id is not "TDFOL_v1" ends in an error that
\* is not the pre-check's: the witness builder refuses it first, with its
\* ruleset error whenever the call gets as far as the builder. A circuit the
\* builder does return carries circuit_version 2.
C15_RulesetGate ==
    (proved.done /\ proved.witness.circuit_version = 2)
        => LET w == proved.witness
               built == build_tdfol_v1_v2_circuit(w) IN
           /\ w.ruleset_id # "TDFOL_v1"
                 => /\ built = UnsupportedRuleset
                    /\ ~proved.result.ok
                    /\ ~PreCheckFailed
                    /\ ReachedBuilderV2 => proved.result = UnsupportedRuleset
           /\ built.ok => built.val.circuit_version = 2

\* An otherwise provable witness under another ruleset reaches the builder.
C15_Witness ==
    /\ ReachedBuilderV2
    /\ proved.witness.ruleset_id = "CEC_v1"
    /\ proved.witness.private_axioms = AxiomsPQ
    /\ proved.witness.intermediate_steps = <<"Q">>
    /\ DeclaresComputedHashes(proved.witness)
    /\ proved.result = UnsupportedRuleset

\* The builder has come as far as comparing the declared hashes: every check
\* before the comparison has passed.
ReachedHashComparison ==
    /\ ReachedBuilderV2
    /\ proved.witness.ruleset_id = "TDFOL_v1"
    /\ is_tdfol_atom(StrTrim(proved.witness.theorem))
    /\ Len(proved.witness.private_axioms) <= MaxAxioms
    /\ AxiomsParse(proved.witness)
    /\ proved.witness.intermediate_steps # <<>>
    /\ Len(proved.witness.intermediate_steps) <= MaxSteps
    /\ StepsAreAtoms(proved.witness)
DecodesTo(hex_str, bytes) ==
    decode_32byte_hex(hex_str).ok /\ decode_32byte_hex(hex_str).val = bytes
DeclaredBytesMatch(w) ==
    /\ DecodesTo(w.axioms_commitment_hex, CallerCommitment(w.private_axioms))
    /\ DecodesTo(w.theorem_hash_hex, Sha256(StrTrim(w.theorem)))

\* C16: the v2 builder accepts the declared axioms_commitment_hex and
\* theorem_hash_hex exactly when, with an optional 0x/0X prefix stripped, they
\* decode to the bytes of the computed commitment and of SHA256(theorem); on a
\* mismatch prove fails and returns no proof.
C16_ByteEqualAccepted ==
    ReachedHashComparison
        => /\ build_tdfol_v1_v2_circuit(proved.witness).ok <=> DeclaredBytesMatch(proved.witness)
           /\ ~DeclaredBytesMatch(proved.witness) => ~proved.result.ok

\* The builder's two comparisons of declared against computed hex text.
CommitmentMatches(w) ==
    strip_0x_prefix(w.axioms_commitment_hex) = HexEncode(CallerCommitment(w.private_axioms))
TheoremHashMatches(w) ==
    strip_0x_prefix(w.theorem_hash_hex) = HexEncode(Sha256(StrTrim(w.theorem)))
CommitmentMismatch ==
    Err("anyhow", "axioms_commitment_hex does not match TDFOL_v1 v2 commitment")
\* The trace of the witness is a derivation of its theorem from its axioms.
ValidDerivation(w) ==
    /\ ~HasDuplicateStep(w)
    /\ \A k \in 1..Len(w.intermediate_steps) : StepDerivable(w, k)
    /\ StrTrim(w.theorem) \in FactAtoms(w) \cup StepAtoms(w)

\* C17 as stated: for every well-formed v2 witness (atoms, axioms and sizes the
\* builder accepts, theorem hash declared correctly) the pre-check succeeds
\* exactly when the declared commitment matches the builder's.
C17_PreCheckIffCommitment ==
    (ReachedHashComparison /\ TheoremHashMatches(proved.witness))
        => (proved.result.ok <=> CommitmentMatches(proved.witness))

\* C17, amended: a proof needs the declared commitment to match the builder's,
\* and for a witness whose trace is a valid derivation of the theorem the match
\* is also enough: the circuit's accumulator then agrees with the declared
\* commitment and the pre-check succeeds. On a mismatch the builder refuses
\* the witness before the pre-check.
C17_ValidDerivationIffCommitment ==
    (ReachedHashComparison /\ TheoremHashMatches(proved.witness))
        => LET w == proved.witness IN
           /\ proved.result.ok => CommitmentMatches(w)
           /\ ~CommitmentMatches(w) => proved.result = CommitmentMismatch
           /\ ValidDerivation(w) => (proved.result.ok <=> CommitmentMatches(w))
           /\ (CommitmentMatches(w) /\ ~ValidDerivation(w)) => PreCheckFailed

\* A three-axiom derivation with the computed commitment is proven.
C17_Witness ==
    /\ ReachedHashComparison
    /\ TheoremHashMatches(proved.witness)
    /\ proved.witness.private_axioms = AxiomsABC
    /\ proved.witness.intermediate_steps = <<"B", "C">>
    /\ ValidDerivation(proved.witness)
    /\ CommitmentMatches(proved.witness)
    /\ proved.result.ok

\* What a second call may find different from the first: the environment
\* variable, the operating system's random stream and the clock.
SecondCallClock == Clock \cup {6}
SecondCallEnv == {EnvUnset, EnvSet("1"), EnvSet("0")}

\* C18: a second generate_proof call with the witness, the seed and the key
\* files of a seeded call returns the same value as the first, whatever the
\* environment variable, the system's random stream and the clock are: the
\* same ProofOutput with timestamp 0, or the same error.
C18_SeededProveDeterministic ==
    (proved.done /\ proved.seed.some)
        => /\ \A env \in SecondCallEnv, os_rng \in OsRngStreams, now \in SecondCallClock :
                 generate_proof(proved.witness, proved.seed, proved.artifacts,
                                env, os_rng, now) = proved.result
           /\ proved.result.ok => proved.result.val.timestamp = 0

\* A seeded v2 proof made while the environment variable was unset.
C18_Witness ==
    /\ proved.done
    /\ proved.seed.some
    /\ proved.witness.circuit_version = 2
    /\ proved.result.ok
    /\ proved.result.val.timestamp = 0
    /\ generate_proof(proved.witness, proved.seed, proved.artifacts, EnvUnset, 2, 6)
          = proved.result
    /\ generate_proof(proved.witness, NoSeed, proved.artifacts, EnvUnset, 2, 6)
          # generate_proof(proved.witness, NoSeed, proved.artifacts, EnvUnset, 1, 6)

\* =========================================================================
\* Properties of the direct runs of setup_to_dir
\* =========================================================================
SetupRuns == 1..Len(setup_runs)
SameSeededSetup(i, j) ==
    /\ i # j
    /\ setup_runs[i].version \in {1, 2}
    /\ setup_runs[i].version = setup_runs[j].version
    /\ setup_runs[i].seed.some
    /\ setup_runs[i].seed = setup_runs[j].seed
\* The digest of the bytes found in verifying_key.bin of a run's directory.
VerifyingKeyFileDigest(run) == <<"vk", run.files.keys.key>>

\* C19: two runs of setup_to_dir for the same version, 1 or 2, with the same
\* seed, into different directories, both succeed with manifests that agree
\* on proving_key_sha256_hex, verifying_key_sha256_hex and vk_hash_hex; and in
\* every manifest vk_hash_hex is verifying_key_sha256_hex, the digest of the
\* bytes written to verifying_key.bin.
C19_SetupReproducible ==
    /\ \A i \in SetupRuns, j \in SetupRuns :
          SameSeededSetup(i, j)
              => /\ setup_runs[i].out_dir # setup_runs[j].out_dir
                 /\ setup_runs[i].result.ok /\ setup_runs[j].result.ok
                 /\ setup_runs[i].result.val.proving_key_sha256_hex
                       = setup_runs[j].result.val.proving_key_sha256_hex
                 /\ setup_runs[i].result.val.verifying_key_sha256_hex
                       = setup_runs[j].result.val.verifying_key_sha256_hex
                 /\ setup_runs[i].result.val.vk_hash_hex = setup_runs[j].result.val.vk_hash_hex
    /\ \A i \in SetupRuns :
          setup_runs[i].result.ok
              => /\ setup_runs[i].files.keys.present
                 /\ setup_runs[i].result.val.vk_hash_hex
                       = setup_runs[i].result.val.verifying_key_sha256_hex
                 /\ setup_runs[i].result.val.verifying_key_sha256_hex
                       = VerifyingKeyFileDigest(setup_runs[i])

\* Two seeded runs of version 2 with one seed, into two directories.
C19_Witness ==
    /\ Len(setup_runs) = 2
    /\ SameSeededSetup(1, 2)
    /\ setup_runs[1].version = 2
    /\ setup_runs[1].result.ok
    /\ setup_runs[1].result = setup_runs[2].result

\* The witnesses that differ from w at most in a 0x or 0X prefix on its two hex
\* fields.
Prefixed(h) == HasPrefix(h, <<"0", "x">>) \/ HasPrefix(h, <<"0", "X">>)
PrefixForms(h) ==
    LET bare == strip_0x_prefix(h) IN {bare, <<"0", "x">> \o bare, <<"0", "X">> \o bare}
PrefixVariants(w) ==
    { [w EXCEPT !.axioms_commitment_hex = ac, !.theorem_hash_hex = th] :
          ac \in PrefixForms(w.axioms_commitment_hex), th \in PrefixForms(w.theorem_hash_hex) }
BareHexFields(w) ==
    /\ ~Prefixed(strip_0x_prefix(w.axioms_commitment_hex))
    /\ ~Prefixed(strip_0x_prefix(w.theorem_hash_hex))
EvmPublicInputsOf(result) == result.val.extra["evm_public_inputs"]

\* C20: a prove call on a witness that differs from the recorded one only in
\* the presence of a 0x/0X prefix on axioms_commitment_hex and theorem_hash_hex
\* is accepted exactly when the recorded call was, and then returns the same
\* extra.evm_public_inputs.
C20_PrefixTolerance ==
    (proved.done /\ BareHexFields(proved.witness))
        => \A v \in PrefixVariants(proved.witness) :
              LET again == generate_proof(v, proved.seed, proved.artifacts, EnvUnset, 1, 5) IN
              /\ again.ok <=> proved.result.ok
              /\ again.ok => EvmPublicInputsOf(again) = EvmPublicInputsOf(proved.result)

\* A v2 witness proven with 0x on both hex fields, and proven without.
C20_Witness ==
    /\ proved.done
    /\ proved.witness.circuit_version = 2
    /\ HasPrefix(proved.witness.axioms_commitment_hex, <<"0", "x">>)
    /\ HasPrefix(proved.witness.theorem_hash_hex, <<"0", "x">>)
    /\ BareHexFields(proved.witness)
    /\ proved.result.ok
    /\ LET bare == [proved.witness EXCEPT
                       !.axioms_commitment_hex = strip_0x_prefix(@),
                       !.theorem_hash_hex = strip_0x_prefix(@)]
           again == generate_proof(bare, proved.seed, proved.artifacts, EnvUnset, 1, 5) IN
       /\ bare # proved.witness
       /\ again.ok
       /\ EvmPublicInputsOf(again) = EvmPublicInputsOf(proved.result)

\* =========================================================================
\* Properties of the command line's error categories
\* =========================================================================
\* prove got past the validation of the witness and found no proving key.
ProveFoundNoKey ==
    /\ proved.done
    /\ proved.witness.private_axioms # <<>>
    /\ StrTrim(proved.witness.theorem) # ""
    /\ StrTrim(proved.witness.ruleset_id) # ""
    /\ proved.witness.circuit_version <= MaxVersion
    /\ ~load_proving_key(proved.artifacts, proved.witness.circuit_version).ok
\* verify got past the structural checks and found no verifying key.
VerifyFoundNoKey ==
    /\ verified.done
    /\ KeyFileMissing(verified.envelope.version)
    /\ ~StructurallyInvalid(verified.envelope)

\* C21: when prove or verify fails because the key file is missing, the
\* error is categorized as IO_ERROR.
C21_MissingKeyIsIoError ==
    /\ ProveFoundNoKey
          => ~proved.result.ok /\ error_code(proved.result) = "IO_ERROR"
    /\ VerifyFoundNoKey
          => ~verified.out.result.ok /\ error_code(verified.out.result) = "IO_ERROR"

\* prove got as far as reading the two hex fields of a version 1 witness.
ReachedHexDecodingV1 ==
    /\ proved.done
    /\ proved.witness.circuit_version = 1
    /\ proved.witness.private_axioms # <<>>
    /\ StrTrim(proved.witness.theorem) # ""
    /\ StrTrim(proved.witness.ruleset_id) # ""
    /\ load_proving_key(proved.artifacts, 1).ok
WrongLength(hex_str) == Len(strip_0x_prefix(hex_str)) # HexLen
NonHexCharacters(hex_str) ==
    \E i \in 1..Len(strip_0x_prefix(hex_str)) : ~IsHexChar(strip_0x_prefix(hex_str)[i])
MalformedHexField(w) ==
    \/ WrongLength(w.axioms_commitment_hex) \/ NonHexCharacters(w.axioms_commitment_hex)
    \/ WrongLength(w.theorem_hash_hex) \/ NonHexCharacters(w.theorem_hash_hex)

\* C22: when prove fails because axioms_commitment_hex or theorem_hash_hex has
\* the wrong length or holds a character that is not a hex digit, the error
\* is categorized as INVALID_HEX.
C22_MalformedHexIsInvalidHex ==
    (ReachedHexDecodingV1 /\ MalformedHexField(proved.witness))
        => ~proved.result.ok /\ error_code(proved.result) = "INVALID_HEX"

\* =========================================================================
\* Properties of the proof output
\* =========================================================================
\* C23: every witness field beyond the core ones is carried verbatim into the
\* ProofOutput: a security_level the caller gave and every additional key of
\* the witness are in the proof's additional keys with the caller's value.
C23_OptionalFieldsCarried ==
    ProvedOk
        => LET w == proved.witness
               out == proved.result.val IN
           /\ \A k \in DOMAIN w.extra :
                 k \in DOMAIN out.extra /\ out.extra[k] = w.extra[k]
           /\ w.security_level.some
                 => /\ "security_level" \in DOMAIN out.extra
                    /\ out.extra["security_level"] = JsonNumber(w.security_level.val)

\* A 0x-prefixed word of 64 lower-case hex digits (HexLen digits in the model).
IsLowerHexDigit(c) == \E i \in 1..Len(HexLower) : HexLower[i] = c
IsEvmWord(word) ==
    /\ Len(word) = HexLen + 2
    /\ word[1] = "0" /\ word[2] = "x"
    /\ \A i \in 3..Len(word) : IsLowerHexDigit(word[i])
IsEvmWordArray(value, n) ==
    /\ value.t = "array"
    /\ Len(value.items) = n
    /\ \A i \in 1..n : value.items[i].t = "string" /\ IsEvmWord(value.items[i].s)

\* C24: every ProofOutput generate_proof returns has schema_version 1, the
\* witness's circuit_version as version, and four public_inputs: the
\* witness's theorem_hash_hex and axioms_commitment_hex as given, the decimal
\* digits of circuit_version and the ruleset_id; extra.evm_proof is an array
\* of 8 and extra.evm_public_inputs an array of 4 words, each 0x followed by
\* 64 lower-case hex digits.
C24_OutputShape ==
    ProvedOk
        => LET w == proved.witness
               out == proved.result.val IN
           /\ out.schema_version = 1
           /\ out.version = w.circuit_version
           /\ Len(out.public_inputs) = 4
           /\ out.public_inputs[1] = w.theorem_hash_hex
           /\ out.public_inputs[2] = w.axioms_commitment_hex
           /\ ParseU32(out.public_inputs[3]) = Ok(w.circuit_version)
           /\ w.circuit_version = 2 => out.public_inputs[3] = <<"2">>
           /\ out.public_inputs[4] = w.ruleset_id
           /\ "evm_proof" \in DOMAIN out.extra
           /\ IsEvmWordArray(out.extra["evm_proof"], 8)
           /\ "evm_public_inputs" \in DOMAIN out.extra
           /\ IsEvmWordArray(out.extra["evm_public_inputs"], 4)

\* A version 2 proof for a witness that gave its theorem hash with a 0x
\* prefix: the prefix stays in public_inputs, and a word of the output has a
\* hex letter.
C24_Witness ==
    /\ ProvedOk
    /\ proved.witness.circuit_version = 2
    /\ \E j \in 1..4 :
          LET word == proved.result.val.extra["evm_public_inputs"].items[j].s IN
          \E k \in 3..Len(word) : word[k] \in {"a", "b", "c", "d", "e", "f"}
    /\ HasPrefix(proved.result.val.public_inputs[1], <<"0", "x">>)

CircuitPublicInputs(w) ==
    IF w.circuit_version = 1
    THEN MVPGenerateConstraints(
             [private_axioms |-> w.private_axioms,
              theorem |-> w.theorem,
              axioms_commitment |-> decode_32byte_hex(w.axioms_commitment_hex).val,
              theorem_hash |-> decode_32byte_hex(w.theorem_hash_hex).val,
              circuit_version |-> w.circuit_version,
              ruleset_id |-> w.ruleset_id]).val.inputs
    ELSE V2GenerateConstraints(build_tdfol_v1_v2_circuit(w).val).val.inputs
WithoutEvmPublicInputs(e) == [e EXCEPT !.extra = MapRemove(@, "evm_public_inputs")]

\* C26: for every ProofOutput generate_proof emits, the four public inputs
\* the verifier derives from extra.evm_public_inputs are those it derives by
\* the fallback from the wire public_inputs, and both are the public inputs
\* of the circuit the prover proved.
C26_PublicInputRecipesAgree ==
    ProvedOk
        => LET out == proved.result.val
               preferred == derive_public_inputs_fr(out)
               fallback == derive_public_inputs_fr(WithoutEvmPublicInputs(out)) IN
           /\ "evm_public_inputs" \in DOMAIN out.extra
           /\ preferred.ok /\ fallback.ok
           /\ preferred.val = fallback.val
           /\ preferred.val = CircuitPublicInputs(proved.witness)

\* A version 2 proof whose declared hashes carry a 0x prefix and reduce
\* modulo r, so the recipes have prefixes and residues to agree on.
C26_Witness ==
    /\ ProvedOk
    /\ proved.witness.circuit_version = 2
    /\ HasPrefix(proved.witness.theorem_hash_hex, <<"0", "x">>)
    /\ decode_32byte_hex(proved.witness.theorem_hash_hex).val >= FrModulus
    /\ derive_public_inputs_fr(WithoutEvmPublicInputs(proved.result.val)).ok
    /\ derive_public_inputs_fr(proved.result.val).val[1]
          # derive_public_inputs_fr(proved.result.val).val[2]

\* =========================================================================
\* Properties of the verifier's reading of an envelope
\* =========================================================================
\* Envelopes that differ from e only in the legacy fields: proof_a, proof_b,
\* proof_c, timestamp, or the contents (not the number) of public_inputs.
LegacyVariants(e) ==
    { [e EXCEPT !.proof_a = <<>>],
      [e EXCEPT !.proof_b = <<>>],
      [e EXCEPT !.proof_c = <<>>],
      [e EXCEPT !.timestamp = @ + 1],
      [e EXCEPT !.public_inputs = [i \in 1..Len(@) |-> <<"z">>]],
      [e EXCEPT !.public_inputs =
                    [i \in 1..Len(@) |-> IF i = 1 THEN <<"0", "x">> \o ZeroHex ELSE @[i]]] }

\* C27: when extra.evm_public_inputs is present, verify gives two envelopes
\* that differ only in proof_a, proof_b, proof_c, timestamp or the contents of
\* the wire public_inputs the same result.
C27_LegacyFieldsIgnored ==
    (verified.done /\ "evm_public_inputs" \in DOMAIN verified.envelope.extra)
        => \A v \in LegacyVariants(verified.envelope) :
              verify_proof(v, artifacts).result = verified.out.result

\* A genuine proof verifies, and still does with another theorem hash in its
\* wire public_inputs.
C27_Witness ==
    /\ RoundTrip
    /\ verified.out.result = Ok(TRUE)
    /\ \E v \in LegacyVariants(verified.envelope) :
          /\ v.public_inputs[1] # verified.envelope.public_inputs[1]
          /\ parse_0x32_to_bytes(v.public_inputs[1]).ok
          /\ verify_proof(v, artifacts).result = Ok(TRUE)

\* extra.evm_public_inputs is present but is not an array of exactly four
\* 32-byte hex strings.
MalformedEvmPublicInputs(e) ==
    /\ "evm_public_inputs" \in DOMAIN e.extra
    /\ LET v == e.extra["evm_public_inputs"] IN
       \/ v.t # "array"
       \/ Len(v.items) # NumPublicInputs
       \/ \E i \in 1..Len(v.items) : v.items[i].t # "string"
       \/ \E i \in 1..Len(v.items) : ~parse_0x32_to_bytes(v.items[i].s).ok

\* C28: a present but malformed extra.evm_public_inputs makes verify return
\* false, without the wire-format fallback and before the key file is read,
\* even when the wire public_inputs are well formed.
C28_NoFallbackWhenKeyPresent ==
    (verified.done /\ MalformedEvmPublicInputs(verified.envelope))
        => /\ verified.out.result = Ok(FALSE)
           /\ ~verified.out.key_read

\* A genuine proof whose extra.evm_public_inputs was damaged is rejected,
\* although the same envelope without the key verifies through the fallback.
C28_Witness ==
    /\ verified.done
    /\ MalformedEvmPublicInputs(verified.envelope)
    /\ verified.out.result = Ok(FALSE)
    /\ verify_proof(WithoutEvmPublicInputs(verified.envelope), artifacts).result = Ok(TRUE)

\* =========================================================================
\* Properties of the prover's randomness and timestamp
\* =========================================================================
ProveClock == {5, 6}

\* The last prove call made again, with its witness and seed, under another
\* environment, OS random stream and clock.
ProveAgain(env, os_rng, now) ==
    generate_proof(proved.witness, proved.seed, proved.artifacts, env, os_rng, now)

\* The proof of a seeded call depends on neither the environment nor the OS
\* stream; that of an unseeded call follows the OS stream under every value
\* of the variable.
RngChosenBySeed ==
    IF proved.seed.some
    THEN LET words == EvmProofWords(ProveAgain(EnvUnset, 1, 5).val) IN
         /\ words = EvmProofWords(proved.result.val)
         /\ \A env \in EnvSamples, os_rng \in OsRngStreams :
               EvmProofWords(ProveAgain(env, os_rng, 5).val) = words
    ELSE \A env \in EnvSamples, r1 \in OsRngStreams :
            LET words == EvmProofWords(ProveAgain(env, r1, 5).val) IN
            \A r2 \in OsRngStreams \ {r1} :
               EvmProofWords(ProveAgain(env, r2, 5).val) # words

\* The timestamp is the clock when wall_clock(seed, env) holds and 0 otherwise.
TimestampFollows(wall_clock(_, _)) ==
    \A env \in EnvSamples, now \in ProveClock :
       ProveAgain(env, 1, now).val.timestamp
           = IF wall_clock(proved.seed, env) THEN now ELSE 0

NotListed(seed, env) ==
    ~seed.some /\ (~env.set \/ env.val \notin ListedEnvValues)
NotListedAfterTrim(seed, env) ==
    ~seed.some /\ (~env.set \/ StrTrim(env.val) \notin ListedEnvValues)

\* C29 as stated: the seed alone chooses the randomness source, and timestamp
\* is the current time exactly when no seed is given and the variable is unset
\* or has a value other than 1, true, TRUE, yes, YES.
C29_TimestampByListedValue ==
    ProvedOk => (RngChosenBySeed /\ TimestampFollows(NotListed))

\* C29 amended: the seed alone chooses the randomness source, and timestamp is
\* the current time exactly when no seed is given and the variable is unset or
\* its value with surrounding white space removed is none of 1, true, TRUE,
\* yes, YES.
C29_TimestampByTrimmedValue ==
    ProvedOk => (RngChosenBySeed /\ TimestampFollows(NotListedAfterTrim))

\* An unseeded prove under a listed value: timestamp 0, and the proof still
\* follows the OS stream.
C29_Witness ==
    /\ ProvedOk
    /\ proved.seed = NoSeed /\ proved.deterministic
    /\ proved.result.val.timestamp = 0
    /\ EvmProofWords(ProveAgain(EnvSet("1"), 1, 5).val)
          # EvmProofWords(ProveAgain(EnvSet("1"), 2, 5).val)
    /\ ProveAgain(EnvSet(" 1 "), 1, 5).val.timestamp = 0

\* =========================================================================
\* Properties of a refused setup
\* =========================================================================
UnsupportedVersionRefused(run) == ~run.result.ok /\ run.version \notin {1, 2}

\* C30: a setup_to_dir call refused for an unsupported version (any version
\* other than 1 or 2, including versions above 255) leaves the file system
\* unchanged: its output directory is not created and no key file is written.
C30_RefusedSetupLeavesNoTrace ==
    \A i \in SetupRuns :
       UnsupportedVersionRefused(setup_runs[i]) => setup_runs[i].files = NoDir

=============================================================================
